---- MODULE Spec2Model ----
(***************************************************************************)
(* Model of the page-object layer of the Playwright suite: BasePage.goto   *)
(* (retry / backoff navigation) and LoginPage.navigateToLogin on top of    *)
(* it, BasePage.clickElement, the candidate loops of LoginPage.login,      *)
(* FormPage.fillFormCreationForm, TaskBotPage.fillTaskBotForm and          *)
(* FormPage.addTextboxElement, LoginPage.isLoggedIn, the click strategies  *)
(* of TaskBotPage.saveConfiguration and AutomationPage.selectTaskBot, the  *)
(* diagnostic screenshots of LearningInstancePage.clickCreateInstance,     *)
(* AutomationPage.clickCreateDropdown and Helpers.takeScreenshot, the      *)
(* test runner as playwright.config.js configures it, BasePage.fillInput,  *)
(* Helpers.waitForElementWithRetry, TestDataManager.getTestData, APIHelper,*)
(* VisualRegressionHelper and the network capture of the Learning Instance *)
(* scenario.                                                               *)
(*                                                                         *)
(* One page-object method runs per behaviour: a Call action picks the      *)
(* method and its arguments, the following actions are the method's steps  *)
(* between two awaits, with the browser's answer to each awaited           *)
(* Playwright call drawn nondeterministically. The candidate loops whose   *)
(* timing matters look at a page that says when each candidate's element   *)
(* becomes visible.                                                        *)
(***************************************************************************)
EXTENDS Integers, Sequences, FiniteSets, TLC

VARIABLES
    op,           \* the page-object method being executed ("none" before the call)
    pc,           \* position inside that method
    result,       \* "none" while running, then "returned" or "thrown"
    err,          \* the error that reached the caller ("none" if none)
    options,      \* the options argument of goto / clickElement
    maxRetries,   \* goto: const maxRetries
    attempt,      \* goto: loop variable attempt
    gotoOptions,  \* goto: the gotoOptions object (timeout, waitUntil)
    calls,        \* goto: page.goto invocations so far, each with its options and outcome
    waits,        \* goto: after each failed attempt that is retried, the waitForTimeout durations issued
    idx,          \* candidate loops: index of the candidate probed next (0-based, as in the source)
    probes,       \* candidate loops: outcome of each probe made so far
    found,        \* candidate loops: what the finished loops resolved
    clicks,       \* locator.click invocations so far
    observed,     \* clickElement: results of waitForElement / isEnabled seen so far
    screenshots,  \* page.screenshot invocations so far, each with its path and outcome
    dom,          \* candidate loops: for each candidate, when its element becomes visible
    now,          \* candidate loops: milliseconds elapsed since the loop began
    self,         \* the page object's locator fields (this.formNameInput, this.taskNameInput)
    values,       \* the value each candidate's input element holds
    retval,       \* the value the method returned ("none" if none)
    scenarios,    \* the test runner: state and number of runs of each scenario
    caller        \* goto: the page-object method that called it ("none" when the scenario did)

vars == <<op, pc, result, err, options, maxRetries, attempt, gotoOptions, calls,
          waits, idx, probes, found, clicks, observed, screenshots, dom, now,
          self, values, retval, scenarios, caller>>

----------------------------------------------------------------------------
(* Bounds *)

\* largest options.retries a caller passes
MaxRetriesOpt == 7
\* largest number of buttons a locator's count() reports
MaxButtons == 2
\* largest number of locator.click calls that reject within one clickCreateInstance,
\* and within the selector pass of selectTaskBot
MaxFailedClicks == 2
\* number of scenarios the test runner is given
NumScenarios == 3
\* number of requests sent through one APIHelper
MaxApiCalls == 2
\* number of compareScreenshot and updateBaseline calls on one name
MaxCompares == 3

----------------------------------------------------------------------------
(* Small helpers *)

Min(a, b) == IF a <= b THEN a ELSE b
Max(a, b) == IF a >= b THEN a ELSE b

RECURSIVE SumSeq(_)
SumSeq(s) == IF s = <<>> THEN 0 ELSE s[1] + SumSeq(Tail(s))

\* s.includes(needle) on strings cut into fragments: needle occurs as a
\* contiguous run of fragments of s
Includes(s, needle) ==
    \E k \in 0..(Len(s) - Len(needle)) :
        \A j \in 1..Len(needle) : s[k + j] = needle[j]

\* String.prototype.toLowerCase on one fragment
LowerFragment(f) ==
    CASE f = "Timeout" -> "timeout"
      [] f = "ERR_HTTP2_PROTOCOL_ERROR" -> "err_http2_protocol_error"
      [] f = "ERR_CONNECTION" -> "err_connection"
      [] f = "_RESET" -> "_reset"
      [] f = "ERR_NAME_NOT_RESOLVED" -> "err_name_not_resolved"
      [] f = "NS_ERROR_UNKNOWN_HOST" -> "ns_error_unknown_host"
      [] f = "Cannot" -> "cannot"
      [] f = "Create" -> "create"
      [] f = "Learning" -> "learning"
      [] f = "Instance" -> "instance"
      [] f = "New" -> "new"
      [] f = "URL" -> "url"
      [] OTHER -> f

ToLowerCase(s) == [j \in 1..Len(s) |-> LowerFragment(s[j])]

----------------------------------------------------------------------------
(* Errors page.goto rejects with: name and message, the message cut into   *)
(* the fragments the classifier of goto looks for.                         *)

GotoErrors ==
    [ timeout |-> [name |-> "TimeoutError",
                   message |-> <<"page.goto", ": ", "Timeout", " ", "90000ms", " ", "exceeded">>],
      http2   |-> [name |-> "Error",
                   message |-> <<"page.goto", ": ", "net::", "ERR_HTTP2_PROTOCOL_ERROR">>],
      reset   |-> [name |-> "Error",
                   message |-> <<"page.goto", ": ", "net::", "ERR_CONNECTION", "_RESET">>],
      dns     |-> [name |-> "Error",
                   message |-> <<"page.goto", ": ", "net::", "ERR_NAME_NOT_RESOLVED">>],
      \* the same failure as the firefox project reports it
      unknownHost |-> [name |-> "Error",
                   message |-> <<"page.goto", ": ", "NS_ERROR_UNKNOWN_HOST">>],
      invalid |-> [name |-> "Error",
                   message |-> <<"Cannot", " ", "navigate", " ", "to", " ", "invalid", " ", "URL">>] ]

GotoErrorIds == DOMAIN GotoErrors

----------------------------------------------------------------------------
(* BasePage.goto *)

DefaultMaxRetries == 3
DefaultTimeout == 120000
BackoffStep == 2000
BackoffCap == 10000
TimeoutFloor == 60000
TimeoutCut == 20000
Http2ExtraDelay == 2000

\* o[k] || d for a numeric option (undefined and 0 are falsy)
NumOr(o, k, d) == IF k \in DOMAIN o /\ o[k] # 0 THEN o[k] ELSE d
\* o[k] || d for a string option (undefined and "" are falsy)
StrOr(o, k, d) == IF k \in DOMAIN o /\ o[k] # "" THEN o[k] ELSE d

\* the options objects callers pass: every subset of the three keys
RetriesOpts == (0 - 1)..MaxRetriesOpt
TimeoutOpts == {30000, 90000}
WaitUntilOpts == {"domcontentloaded", "networkidle"}
GotoOptionSets ==
    { [k \in D |-> full[k]] :
        D \in SUBSET {"retries", "timeout", "waitUntil"},
        full \in [retries : RetriesOpts, timeout : TimeoutOpts, waitUntil : WaitUntilOpts] }

\* options.retries read as the number of retries after the first attempt
MaxRetriesOf_plusOne(o) == NumOr(o, "retries", DefaultMaxRetries) + 1

\* const maxRetries = options.retries || 3
MaxRetriesOf(o) == NumOr(o, "retries", DefaultMaxRetries)

\* const gotoOptions = { timeout: options.timeout || 120000, waitUntil: ... }
InitialGotoOptions(o) ==
    [timeout |-> NumOr(o, "timeout", DefaultTimeout),
     waitUntil |-> StrOr(o, "waitUntil", "domcontentloaded")]

\* the for loop's condition
LoopCondition(a, m) == a <= m

\* the first attempt keeps the wait-until condition the caller supplied
WaitUntilFor_keepsCaller(a, current) ==
    IF a = 1 THEN current ELSE IF a = 2 THEN "load" ELSE "networkidle"

\* the assignments to gotoOptions.waitUntil at the top of the try block;
\* current is the value gotoOptions.waitUntil holds on entry
WaitUntilFor(a, current) ==
    LET first == IF a = 1 THEN "domcontentloaded"
                 ELSE IF a = 2 THEN "load"
                 ELSE "networkidle"
    IN IF a > 3 THEN "networkidle" ELSE first

\* a classifier that also takes every plain Error for a network error
IsNetworkError_anyError(e) ==
    \/ Includes(ToLowerCase(e.message), <<"net::">>)
    \/ Includes(ToLowerCase(e.message), <<"timeout">>)
    \/ Includes(ToLowerCase(e.message), <<"page.goto">>)
    \/ e.name = "TimeoutError"
    \/ e.name = "Error"

\* const isNetworkError = ...
IsNetworkError(e) ==
    LET errorMessage == ToLowerCase(e.message)
    IN \/ Includes(errorMessage, <<"err_http2_protocol_error">>)
       \/ Includes(errorMessage, <<"net::">>)
       \/ Includes(errorMessage, <<"navigation", " ", "timeout">>)
       \/ Includes(errorMessage, <<"timeout">>)
       \/ Includes(errorMessage, <<"err_connection">>)
       \/ Includes(errorMessage, <<"timeout", " ", "exceeded">>)
       \/ Includes(errorMessage, <<"page.goto">>)
       \/ e.name = "TimeoutError"

\* the retry branch taken on the last attempt too (<= for <)
ShouldRetry_offByOne(e, a, m) == IsNetworkError(e) /\ a <= m
\* the retry branch never taken
ShouldRetry_never(e, a, m) == FALSE

\* if (isNetworkError && attempt < maxRetries)
ShouldRetry(e, a, m) == IsNetworkError(e) /\ a < m

\* a backoff that shrinks with the attempt number
WaitTime_shrinking(a) == Max(BackoffCap - a * BackoffStep, BackoffStep)

\* const waitTime = Math.min(attempt * 2000, 10000)
WaitTime(a) == Min(a * BackoffStep, BackoffCap)

\* gotoOptions.timeout after the retry branch
NextTimeout(t, e) ==
    IF Includes(ToLowerCase(e.message), <<"timeout">>)
    THEN Max(TimeoutFloor, t - TimeoutCut)
    ELSE t

IsHttp2Error(e) == Includes(ToLowerCase(e.message), <<"err_http2_protocol_error">>)
\* error.message.includes('ERR_CONNECTION_RESET'): on the message as thrown
IsConnectionReset(e) == Includes(e.message, <<"ERR_CONNECTION", "_RESET">>)

\* the page.waitForTimeout calls of the retry branch, in order
BackoffWaits(e, a) ==
    (IF IsHttp2Error(e) THEN <<Http2ExtraDelay>> ELSE <<>>)
    \o (IF IsConnectionReset(e) THEN <<WaitTime(a) * 2>> ELSE <<WaitTime(a)>>)

\* goto(url, options): everything before the first page.goto
GotoCall(o) ==
    /\ op = "none"
    /\ op' = "goto"
    /\ options' = o
    /\ maxRetries' = MaxRetriesOf(o)
    /\ gotoOptions' = InitialGotoOptions(o)
    /\ attempt' = 1
    /\ IF LoopCondition(1, MaxRetriesOf(o))
       THEN /\ pc' = "goto_attempt"
            /\ result' = result
       ELSE \* the loop body never runs: the function falls off its end
            /\ pc' = "done"
            /\ result' = "returned"
    /\ UNCHANGED <<err, calls, waits, idx, probes, found, clicks, observed, screenshots, dom, now, self,
                   values, retval, scenarios, caller>>

\* the record of one page.goto(url, gotoOptions) invocation
GotoCallRecord(a, go, outcome) ==
    [attempt |-> a, waitUntil |-> go.waitUntil, timeout |-> go.timeout, outcome |-> outcome]

\* one loop iteration whose page.goto resolves (the waitForLoadState that
\* follows may reject; its error is swallowed)
GotoAttemptSucceeds ==
    /\ op = "goto" /\ pc = "goto_attempt"
    /\ LET go == [gotoOptions EXCEPT !.waitUntil = WaitUntilFor(attempt, gotoOptions.waitUntil)]
       IN /\ gotoOptions' = go
          /\ calls' = Append(calls, GotoCallRecord(attempt, go, "ok"))
    /\ pc' = "done"
    /\ result' = "returned"
    /\ UNCHANGED <<op, err, options, maxRetries, attempt, waits, idx, probes, found,
                   clicks, observed, screenshots, dom, now, self,
                   values, retval, scenarios, caller>>

\* the errors page.goto is made to reject with: the firefox report of a DNS
\* failure is drawn for the calls of navigateToLogin, whose callers test for
\* DNS failures, and left out of direct calls of goto (it is classified as
\* the chromium report is)
AttemptErrorIds ==
    IF caller = "navigateToLogin" THEN GotoErrorIds ELSE GotoErrorIds \ {"unknownHost"}

\* one loop iteration whose page.goto rejects with error id
GotoAttemptFails(id) ==
    /\ op = "goto" /\ pc = "goto_attempt"
    /\ LET go == [gotoOptions EXCEPT !.waitUntil = WaitUntilFor(attempt, gotoOptions.waitUntil)]
           e == GotoErrors[id]
       IN /\ calls' = Append(calls, GotoCallRecord(attempt, go, id))
          /\ IF ShouldRetry(e, attempt, maxRetries)
             THEN /\ gotoOptions' = [go EXCEPT !.timeout = NextTimeout(go.timeout, e)]
                  /\ waits' = Append(waits, BackoffWaits(e, attempt))
                  /\ attempt' = attempt + 1          \* continue
                  /\ IF LoopCondition(attempt + 1, maxRetries)
                     THEN /\ pc' = "goto_attempt"
                          /\ result' = result
                     ELSE /\ pc' = "done"
                          /\ result' = "returned"
                  /\ err' = err
             ELSE /\ gotoOptions' = go
                  /\ pc' = "done"
                  /\ result' = "thrown"            \* throw error (both throw statements)
                  /\ err' = id
                  /\ UNCHANGED <<waits, attempt>>
    /\ UNCHANGED <<op, options, maxRetries, idx, probes, found, clicks, observed, screenshots, dom, now, self,
                   values, retval, scenarios, caller>>

----------------------------------------------------------------------------
(* LoginPage.navigateToLogin, Helpers.isDNSError and the scenario step that *)
(* skips on a DNS failure                                                   *)

\* the options navigateToLogin passes to goto
NavigateToLoginOptions ==
    [waitUntil |-> "domcontentloaded", timeout |-> 90000, retries |-> 3]

\* the error object that reaches the caller of goto: goto rethrows the error
\* page.goto rejected with, unchanged
SurfacedError == IF err \in GotoErrorIds THEN GotoErrors[err] ELSE [name |-> err, message |-> <<>>]

\* Helpers.isDNSError(error)
IsDNSError(e) ==
    /\ e.message # <<>>                                   \* !error.message: return false
    /\ LET errorMsg == ToLowerCase(e.message)
       IN \/ Includes(errorMsg, <<"err_name_not_resolved">>)
          \/ Includes(errorMsg, <<"could not resolve hostname">>)
          \/ Includes(errorMsg, <<"enotfound">>)
          \/ Includes(errorMsg, <<"getaddrinfo">>)

\* navigateToLogin(): await this.goto('/#/login', { ... }), up to the first page.goto
NavigateToLoginCall ==
    /\ op = "none"
    /\ op' = "goto"
    /\ caller' = "navigateToLogin"
    /\ options' = NavigateToLoginOptions
    /\ maxRetries' = MaxRetriesOf(NavigateToLoginOptions)
    /\ gotoOptions' = InitialGotoOptions(NavigateToLoginOptions)
    /\ attempt' = 1
    /\ pc' = "goto_attempt"
    /\ UNCHANGED <<result, err, calls, waits, idx, probes, found, clicks, observed,
                   screenshots, dom, now, self, values, retval, scenarios>>

\* goto returned: the waitForTimeout(2000) whose rejection is swallowed, then
\* navigateToLogin returns to the scenario
NavigateToLoginWait ==
    /\ op = "goto" /\ caller = "navigateToLogin"
    /\ pc = "done" /\ result = "returned"
    /\ pc' = "test_continues"
    /\ UNCHANGED <<op, result, err, options, maxRetries, attempt, gotoOptions, calls,
                   waits, idx, probes, found, clicks, observed, screenshots, dom, now,
                   self, values, retval, scenarios, caller>>

\* goto threw and navigateToLogin let the error through: the catch block of
\* the scenario skips on a DNS error and rethrows anything else
ScenarioCatch ==
    /\ op = "goto" /\ caller = "navigateToLogin"
    /\ pc = "done" /\ result = "thrown"
    /\ pc' = IF IsDNSError(SurfacedError) THEN "test_skipped" ELSE "test_failed"
    /\ UNCHANGED <<op, result, err, options, maxRetries, attempt, gotoOptions, calls,
                   waits, idx, probes, found, clicks, observed, screenshots, dom, now,
                   self, values, retval, scenarios, caller>>

----------------------------------------------------------------------------
(* BasePage.clickElement *)

\* the options objects callers pass to clickElement
ClickOptionSets == { <<>> } \cup [force : BOOLEAN]

\* options.force as a condition (undefined is falsy)
Force(o) == "force" \in DOMAIN o /\ o.force

\* the enabled check is never made
NeedsEnabledCheck_never(o) == FALSE

\* if (!options.force)
NeedsEnabledCheck(o) == ~Force(o)

Observe(call, value) == [call |-> call, value |-> value]

\* the catch block of clickElement logs and rethrows
ClickThrows(e) ==
    /\ pc' = "done"
    /\ result' = "thrown"
    /\ err' = e

ClickElementCall(o) ==
    /\ op = "none"
    /\ op' = "clickElement"
    /\ options' = o
    /\ pc' = "click_waitForElement"
    /\ UNCHANGED <<result, err, maxRetries, attempt, gotoOptions, calls, waits, idx,
                   probes, found, clicks, observed, screenshots, dom, now, self,
                   values, retval, scenarios, caller>>

\* await this.waitForElement(locator, options.timeout)
ClickWaitForElement(visible) ==
    /\ op = "clickElement" /\ pc = "click_waitForElement"
    /\ observed' = Append(observed, Observe("waitForElement", visible))
    /\ IF visible
       THEN /\ pc' = IF NeedsEnabledCheck(options) THEN "click_attached" ELSE "click_click"
            /\ UNCHANGED <<result, err>>
       ELSE ClickThrows("ElementWaitTimeout")
    /\ UNCHANGED <<op, options, maxRetries, attempt, gotoOptions, calls, waits, idx,
                   probes, found, clicks, screenshots, dom, now, self,
                   values, retval, scenarios, caller>>

\* await locator.waitFor({ state: 'attached' })
ClickWaitAttached(attached) ==
    /\ op = "clickElement" /\ pc = "click_attached"
    /\ observed' = Append(observed, Observe("waitForAttached", attached))
    /\ IF attached
       THEN /\ pc' = "click_isEnabled"
            /\ UNCHANGED <<result, err>>
       ELSE ClickThrows("TimeoutError")
    /\ UNCHANGED <<op, options, maxRetries, attempt, gotoOptions, calls, waits, idx,
                   probes, found, clicks, screenshots, dom, now, self,
                   values, retval, scenarios, caller>>

\* const isEnabled = await locator.isEnabled(); if (!isEnabled) throw ...
ClickIsEnabled(isEnabled) ==
    /\ op = "clickElement" /\ pc = "click_isEnabled"
    /\ observed' = Append(observed, Observe("isEnabled", isEnabled))
    /\ IF isEnabled
       THEN /\ pc' = "click_click"
            /\ UNCHANGED <<result, err>>
       ELSE ClickThrows("ElementNotEnabled")
    /\ UNCHANGED <<op, options, maxRetries, attempt, gotoOptions, calls, waits, idx,
                   probes, found, clicks, screenshots, dom, now, self,
                   values, retval, scenarios, caller>>

\* await locator.click(options)
ClickClick(ok) ==
    /\ op = "clickElement" /\ pc = "click_click"
    /\ clicks' = Append(clicks, [target |-> "locator", force |-> Force(options), ok |-> ok])
    /\ IF ok
       THEN /\ pc' = "done"
            /\ result' = "returned"
            /\ err' = err
       ELSE ClickThrows("ClickError")
    /\ UNCHANGED <<op, options, maxRetries, attempt, gotoOptions, calls, waits, idx,
                   probes, found, observed, screenshots, dom, now, self,
                   values, retval, scenarios, caller>>

----------------------------------------------------------------------------
(* Shared steps of the page objects *)

Put(f, k, v) == (k :> v) @@ f

\* a method ends by throwing e
Throws(e) ==
    /\ pc' = "done"
    /\ result' = "thrown"
    /\ err' = e

\* a method ends by returning
Returns ==
    /\ pc' = "done"
    /\ result' = "returned"
    /\ err' = err

Probe(list, cand, matched) == [list |-> list, cand |-> cand, matched |-> matched]
Shot(path, ok) == [path |-> path, ok |-> ok]

----------------------------------------------------------------------------
(* The page a candidate loop looks at, and the two probes the loops use *)

\* the element of a candidate never becomes visible (absent, or hidden for good)
Never == 0 - 1

\* when the element of a candidate becomes visible, in milliseconds after the
\* loop began
AppearTimes == {0, 2000, Never}

\* the pages a loop over n candidates can face
Doms(n) == [0..(n - 1) -> AppearTimes]

\* locator.waitFor({ state: 'visible', timeout }) issued at time t on an
\* element that appears at time a: it resolves as soon as the element is
\* visible and rejects when the timeout expires first
WaitForVisible(a, t, timeout) == a # Never /\ a <= t + timeout
WaitForEnds(a, t, timeout) == IF WaitForVisible(a, t, timeout) THEN Max(t, a) ELSE t + timeout

\* locator.isVisible({ timeout }) issued at time t: Playwright answers for
\* the present moment and does not wait, the timeout option is ignored
IsVisible(a, t, timeout) == a # Never /\ a <= t

\* the list is walked from its last entry to its first
SelectorAt_reversed(i, n) == n - 1 - i

\* const selector = selectors[i]: the i-th iteration probes the i-th entry
SelectorAt(i, n) == i

----------------------------------------------------------------------------
(* LoginPage.login *)

NumUsernameSelectors == 8
NumPasswordSelectors == 9
UsernameTimeout == 10000

\* what one probe of a password candidate can see: the state the two
\* waitFor calls find the element in, the value getAttribute('type') yields
\* ("" when it rejects or the attribute is missing) and what
\* evaluate(el => el.type === 'password') does
PasswordProbes ==
    [state : {"visible", "attached", "none"},
     inputType : {"password", "text", ""},
     evaluated : {"true", "false", "throws"}]

\* the body of the try block of the password loop: does the candidate
\* become passwordField
\* any candidate one of the waitFor calls finds becomes passwordField
PasswordCandidateAccepted_anyAttached(p) == p.state # "none"

\* try { isPassword = await selector.evaluate(el => el.type === 'password') }
\* catch (e) { isPassword = inputType === 'password' }
IsPassword(p) ==
    IF p.evaluated = "throws" THEN p.inputType = "password" ELSE p.evaluated = "true"

PasswordCandidateAccepted(p) ==
    /\ p.state # "none"          \* else both waitFor calls reject: caught, next candidate
    /\ (IsPassword(p) \/ p.inputType = "password")

LoginCall ==
    /\ op = "none"
    /\ op' = "login"
    /\ pc' = "login_loadState"
    /\ UNCHANGED <<result, err, options, maxRetries, attempt, gotoOptions, calls, waits,
                   idx, probes, found, clicks, observed, screenshots, dom, now, self,
                   values, retval, scenarios, caller>>

\* await this.page.waitForLoadState('domcontentloaded', { timeout: 30000 });
\* the page the username loop then faces is any of Doms
LoginWaitForLoadState(ok) ==
    /\ op = "login" /\ pc = "login_loadState"
    /\ IF ok
       THEN /\ pc' = "login_username"
            /\ dom' \in Doms(NumUsernameSelectors)
            /\ UNCHANGED <<result, err>>
       ELSE /\ Throws("TimeoutError")
            /\ dom' = dom
    /\ idx' = 0
    /\ now' = 0
    /\ UNCHANGED <<op, options, maxRetries, attempt, gotoOptions, calls, waits,
                   probes, found, clicks, observed, screenshots, self,
                   values, retval, scenarios, caller>>

\* one iteration of the username loop:
\* selector.waitFor({ state: 'visible', timeout: 10000 })
LoginProbeUsername ==
    /\ op = "login" /\ pc = "login_username"
    /\ LET cand == SelectorAt(idx, NumUsernameSelectors)
           visible == WaitForVisible(dom[cand], now, UsernameTimeout)
       IN /\ probes' = Append(probes, Probe("username", cand, visible))
          /\ now' = WaitForEnds(dom[cand], now, UsernameTimeout)
          /\ IF visible
             THEN /\ found' = Put(found, "username", cand)
                  /\ pc' = "login_fillUsername"                  \* break
                  /\ idx' = idx
             ELSE /\ found' = found
                  /\ idx' = idx + 1
                  /\ pc' = IF idx + 1 < NumUsernameSelectors
                           THEN "login_username"
                           ELSE "login_usernameFallback"
    /\ UNCHANGED <<op, result, err, options, maxRetries, attempt, gotoOptions, calls,
                   waits, clicks, observed, screenshots, dom, self,
                   values, retval, scenarios, caller>>

\* if (!usernameField): count the input[type="email"] elements
LoginUsernameFallback(emailInputs) ==
    /\ op = "login" /\ pc = "login_usernameFallback"
    /\ IF emailInputs > 0
       THEN /\ found' = Put(found, "username", "fallback")
            /\ pc' = "login_fillUsername"
            /\ UNCHANGED <<result, err>>
       ELSE /\ found' = found
            /\ Throws("UsernameNotFound")
    /\ UNCHANGED <<op, options, maxRetries, attempt, gotoOptions, calls, waits, idx,
                   probes, clicks, observed, screenshots, dom, now, self,
                   values, retval, scenarios, caller>>

\* await this.fillInput(usernameField, username); waitForTimeout(500);
\* the page is not the one the username loop looked at any more
LoginFillUsername(ok) ==
    /\ op = "login" /\ pc = "login_fillUsername"
    /\ IF ok
       THEN /\ pc' = "login_password"
            /\ UNCHANGED <<result, err>>
       ELSE Throws("FillError")
    /\ idx' = 0
    /\ dom' = <<>>
    /\ now' = 0
    /\ UNCHANGED <<op, options, maxRetries, attempt, gotoOptions, calls, waits,
                   probes, found, clicks, observed, screenshots, self,
                   values, retval, scenarios, caller>>

\* one iteration of the password loop
LoginProbePassword(p) ==
    /\ op = "login" /\ pc = "login_password"
    /\ probes' = Append(probes, Probe("password", idx, PasswordCandidateAccepted(p)))
    /\ IF PasswordCandidateAccepted(p)
       THEN /\ found' = Put(Put(Put(found, "password", idx),
                                "inputType", p.inputType),
                            "isPassword", IsPassword(p))
            /\ pc' = "login_fillPassword"                  \* break
            /\ idx' = idx
       ELSE /\ found' = IF p.state # "none"
                        THEN Put(found, "otherType", idx)  \* reached the type check, not taken
                        ELSE found
            /\ idx' = idx + 1
            /\ pc' = IF idx + 1 < NumPasswordSelectors
                     THEN "login_password"
                     ELSE "login_passwordFallback"
    /\ UNCHANGED <<op, result, err, options, maxRetries, attempt, gotoOptions, calls,
                   waits, clicks, observed, screenshots, dom, now, self,
                   values, retval, scenarios, caller>>

\* if (!passwordField): the last-resort lookup on the page and in its
\* frames; where is "page", "frame", "nowhere", or "throws" when a call of
\* the outer try rejects (the catch ignores it)
LoginPasswordFallback(where) ==
    /\ op = "login" /\ pc = "login_passwordFallback"
    /\ IF where \in {"page", "frame"}
       THEN /\ found' = Put(found, "password", where)
            /\ pc' = "login_fillPassword"
       ELSE /\ found' = found
            /\ pc' = "login_screenshot"
    /\ UNCHANGED <<op, result, err, options, maxRetries, attempt, gotoOptions, calls,
                   waits, idx, probes, clicks, observed, screenshots, dom, now, self,
                   values, retval, scenarios, caller>>

\* await this.page.screenshot({ path: 'test-results/password-field-not-found.png' });
\* throw new Error('Password field not found ...')
LoginPasswordNotFound(shotOk) ==
    /\ op = "login" /\ pc = "login_screenshot"
    /\ screenshots' = Append(screenshots, Shot("password-field-not-found", shotOk))
    /\ IF shotOk
       THEN Throws("PasswordNotFound")
       ELSE Throws("ScreenshotError")       \* the await rejects before the throw statement
    /\ UNCHANGED <<op, options, maxRetries, attempt, gotoOptions, calls, waits, idx,
                   probes, found, clicks, observed, dom, now, self,
                   values, retval, scenarios, caller>>

\* await this.fillInput(passwordField, password)
LoginFillPassword(ok) ==
    /\ op = "login" /\ pc = "login_fillPassword"
    /\ IF ok
       THEN /\ pc' = "login_submit"
            /\ UNCHANGED <<result, err>>
       ELSE Throws("FillError")
    /\ UNCHANGED <<op, options, maxRetries, attempt, gotoOptions, calls, waits, idx,
                   probes, found, clicks, observed, screenshots, dom, now, self,
                   values, retval, scenarios, caller>>

\* the rest of login: the login button is clicked (or Enter pressed) and the
\* navigation awaited; ok is false when one of these awaits rejects
LoginSubmit(ok) ==
    /\ op = "login" /\ pc = "login_submit"
    /\ IF ok THEN Returns ELSE Throws("SubmitError")
    /\ UNCHANGED <<op, options, maxRetries, attempt, gotoOptions, calls, waits, idx,
                   probes, found, clicks, observed, screenshots, dom, now, self,
                   values, retval, scenarios, caller>>

----------------------------------------------------------------------------
(* FormPage.addTextboxElement *)

NumTextboxSelectors == 5
NumCanvasSelectors == 4

AddTextboxCall ==
    /\ op = "none"
    /\ op' = "addTextboxElement"
    /\ pc' = "tb_menu"
    /\ UNCHANGED <<result, err, options, maxRetries, attempt, gotoOptions, calls, waits,
                   idx, probes, found, clicks, observed, screenshots, dom, now, self,
                   values, retval, scenarios, caller>>

\* await this.waitForElement(this.elementsMenu, 10000)
AddTextboxWaitMenu(visible) ==
    /\ op = "addTextboxElement" /\ pc = "tb_menu"
    /\ IF visible
       THEN /\ pc' = "tb_textbox"
            /\ UNCHANGED <<result, err>>
       ELSE Throws("ElementWaitTimeout")
    /\ idx' = 0
    /\ UNCHANGED <<op, options, maxRetries, attempt, gotoOptions, calls, waits,
                   probes, found, clicks, observed, screenshots, dom, now, self,
                   values, retval, scenarios, caller>>

\* one iteration of the textbox loop: this.isElementVisible(selector, 3000);
\* after the loop, if (!textbox) throw
AddTextboxProbeTextbox(visible) ==
    /\ op = "addTextboxElement" /\ pc = "tb_textbox"
    /\ probes' = Append(probes, Probe("textbox", idx, visible))
    /\ IF visible
       THEN /\ found' = Put(found, "textbox", idx)
            /\ pc' = "tb_canvas"
            /\ idx' = 0
            /\ UNCHANGED <<result, err>>
       ELSE /\ found' = found
            /\ idx' = idx + 1
            /\ IF idx + 1 < NumTextboxSelectors
               THEN /\ pc' = "tb_textbox"
                    /\ UNCHANGED <<result, err>>
               ELSE Throws("TextboxNotFound")
    /\ UNCHANGED <<op, options, maxRetries, attempt, gotoOptions, calls, waits,
                   clicks, observed, screenshots, dom, now, self,
                   values, retval, scenarios, caller>>

\* one iteration of the canvas loop; after the loop, if (!canvas) throw
AddTextboxProbeCanvas(visible) ==
    /\ op = "addTextboxElement" /\ pc = "tb_canvas"
    /\ probes' = Append(probes, Probe("canvas", idx, visible))
    /\ IF visible
       THEN /\ found' = Put(found, "canvas", idx)
            /\ pc' = "tb_drag"
            /\ idx' = idx
            /\ UNCHANGED <<result, err>>
       ELSE /\ found' = found
            /\ idx' = idx + 1
            /\ IF idx + 1 < NumCanvasSelectors
               THEN /\ pc' = "tb_canvas"
                    /\ UNCHANGED <<result, err>>
               ELSE Throws("CanvasNotFound")
    /\ UNCHANGED <<op, options, maxRetries, attempt, gotoOptions, calls, waits,
                   clicks, observed, screenshots, dom, now, self,
                   values, retval, scenarios, caller>>

\* the drag and drop with its click alternative; how is "dragged",
\* "clicked" (the alternative worked) or "failed" (the alternative threw)
AddTextboxDragAndDrop(how) ==
    /\ op = "addTextboxElement" /\ pc = "tb_drag"
    /\ IF how = "failed" THEN Throws("AddTextboxFailed") ELSE Returns
    /\ UNCHANGED <<op, options, maxRetries, attempt, gotoOptions, calls, waits, idx,
                   probes, found, clicks, observed, screenshots, dom, now, self,
                   values, retval, scenarios, caller>>

----------------------------------------------------------------------------
(* Helpers.takeScreenshot *)

TakeScreenshotCall ==
    /\ op = "none"
    /\ op' = "takeScreenshot"
    /\ pc' = "ts_screenshot"
    /\ UNCHANGED <<result, err, options, maxRetries, attempt, gotoOptions, calls, waits,
                   idx, probes, found, clicks, observed, screenshots, dom, now, self,
                   values, retval, scenarios, caller>>

\* try { await page.screenshot(...) } catch (error) { logger.error(...) }
TakeScreenshotCapture(shotOk) ==
    /\ op = "takeScreenshot" /\ pc = "ts_screenshot"
    /\ screenshots' = Append(screenshots, Shot("screenshots/name_timestamp", shotOk))
    /\ Returns
    /\ UNCHANGED <<op, options, maxRetries, attempt, gotoOptions, calls, waits, idx,
                   probes, found, clicks, observed, dom, now, self,
                   values, retval, scenarios, caller>>

----------------------------------------------------------------------------
(* AutomationPage.clickCreateDropdown *)

ClickRecord(target, force, ok) == [target |-> target, force |-> force, ok |-> ok]

CreateDropdownCall ==
    /\ op = "none"
    /\ op' = "clickCreateDropdown"
    /\ pc' = "cd_count"
    /\ UNCHANGED <<result, err, options, maxRetries, attempt, gotoOptions, calls, waits,
                   idx, probes, found, clicks, observed, screenshots, dom, now, self,
                   values, retval, scenarios, caller>>

\* const totalCount = await allCreateButtons.count(); let clicked = false
\* (counted is false when count() rejects: the outer catch takes over)
CreateDropdownCount(counted, n) ==
    /\ op = "clickCreateDropdown" /\ pc = "cd_count"
    /\ idx' = 0
    /\ IF counted
       THEN /\ found' = Put(Put(found, "totalCount", n), "clicked", FALSE)
            /\ pc' = IF 0 < n THEN "cd_button" ELSE "cd_screenshot"
       ELSE /\ found' = Put(found, "caught", "CountError")
            /\ pc' = "cd_catch"
    /\ UNCHANGED <<op, result, err, options, maxRetries, attempt, gotoOptions, calls,
                   waits, probes, clicks, observed, screenshots, dom, now, self,
                   values, retval, scenarios, caller>>

\* one iteration of the button loop; outcome is "invisible", "throws" (an
\* await before the click rejects: caught, lastError), "clicked" (regular
\* click), "forceClicked" (regular click rejected, forced click worked) or
\* "bothFail"
CreateDropdownTryButton(outcome) ==
    /\ op = "clickCreateDropdown" /\ pc = "cd_button"
    /\ clicks' = clicks \o
          (CASE outcome = "clicked" -> <<ClickRecord(idx, FALSE, TRUE)>>
             [] outcome = "forceClicked" ->
                   <<ClickRecord(idx, FALSE, FALSE), ClickRecord(idx, TRUE, TRUE)>>
             [] outcome = "bothFail" ->
                   <<ClickRecord(idx, FALSE, FALSE), ClickRecord(idx, TRUE, FALSE)>>
             [] OTHER -> <<>>)
    /\ IF outcome \in {"clicked", "forceClicked"}
       THEN /\ found' = Put(found, "clicked", TRUE)
            /\ pc' = "cd_menu"                              \* break
            /\ idx' = idx
       ELSE /\ found' = found
            /\ idx' = idx + 1
            /\ pc' = IF idx + 1 < found["totalCount"] THEN "cd_button" ELSE "cd_screenshot"
    /\ UNCHANGED <<op, result, err, options, maxRetries, attempt, gotoOptions, calls,
                   waits, probes, observed, screenshots, dom, now, self,
                   values, retval, scenarios, caller>>

\* if (!clicked) { await this.page.screenshot(...); throw new Error(...) }:
\* both the rejected screenshot and the thrown error land in the outer catch
CreateDropdownNotClicked(shotOk) ==
    /\ op = "clickCreateDropdown" /\ pc = "cd_screenshot"
    /\ screenshots' = Append(screenshots, Shot("create-button-failed", shotOk))
    /\ found' = Put(found, "caught",
                    IF shotOk THEN "CreateDropdownNotClickable" ELSE "ScreenshotError")
    /\ pc' = "cd_catch"
    /\ UNCHANGED <<op, result, err, options, maxRetries, attempt, gotoOptions, calls,
                   waits, idx, probes, clicks, observed, dom, now, self,
                   values, retval, scenarios, caller>>

\* the wait and the check that the menu opened (its errors are swallowed)
CreateDropdownVerifyMenu ==
    /\ op = "clickCreateDropdown" /\ pc = "cd_menu"
    /\ Returns
    /\ UNCHANGED <<op, options, maxRetries, attempt, gotoOptions, calls, waits, idx,
                   probes, found, clicks, observed, screenshots, dom, now, self,
                   values, retval, scenarios, caller>>

\* the outer catch: screenshot(...).catch(() => {}); throw error
CreateDropdownCatch(shotOk) ==
    /\ op = "clickCreateDropdown" /\ pc = "cd_catch"
    /\ screenshots' = Append(screenshots, Shot("create-button-error", shotOk))
    /\ Throws(found["caught"])
    /\ UNCHANGED <<op, options, maxRetries, attempt, gotoOptions, calls, waits, idx,
                   probes, found, clicks, observed, dom, now, self,
                   values, retval, scenarios, caller>>

----------------------------------------------------------------------------
(* LearningInstancePage.clickCreateInstance *)

NumCreateButtonSelectors == 12
FallbackButtonLimit == 50

\* texts and aria-labels of the buttons of the page, cut into words
\* (<<>> is the empty string, or null)
ButtonTexts ==
    { <<>>,
      <<"Create", " ", "Learning", " ", "Instance">>,
      <<"Create">>,
      <<"New", " ", "Instance">> }
AriaLabels ==
    { <<>>,
      <<"create", " ", "instance">>,
      <<"New">> }

\* what the calls on one candidate yield
ButtonViews == [visible : BOOLEAN, text : ButtonTexts, ariaLabel : AriaLabels]

\* const buttonText = (text || ariaLabel || '').toLowerCase()
ButtonText(v) == ToLowerCase(IF v.text # <<>> THEN v.text ELSE v.ariaLabel)

\* the word 'create' alone is taken for the button
MatchesCreatePattern_createOnly(t) == Includes(t, <<"create">>)

\* buttonText.includes('create') && (buttonText.includes('learning') || buttonText.includes('instance'))
MatchesCreatePattern(t) ==
    /\ Includes(t, <<"create">>)
    /\ (Includes(t, <<"learning">>) \/ Includes(t, <<"instance">>))

FailedClicks == Cardinality({ i \in 1..Len(clicks) : ~clicks[i].ok })

\* the waits for the heading, the network and the render never throw
CreateInstanceCall ==
    /\ op = "none"
    /\ op' = "clickCreateInstance"
    /\ pc' = "ci_selector"
    /\ idx' = 0
    /\ found' = Put(found, "clicked", FALSE)
    /\ UNCHANGED <<result, err, options, maxRetries, attempt, gotoOptions, calls, waits,
                   probes, clicks, observed, screenshots, dom, now, self,
                   values, retval, scenarios, caller>>

\* one iteration of the selector loop on a candidate count() reports
\* present; clickOk is the outcome of selector.click if it is reached
CreateInstanceTrySelector(v, clickOk) ==
    /\ op = "clickCreateInstance" /\ pc = "ci_selector"
    /\ clickOk \/ FailedClicks < MaxFailedClicks
    /\ LET click == v.visible /\ MatchesCreatePattern(ButtonText(v))
       IN /\ clicks' = IF click
                       THEN Append(clicks, ClickRecord(ButtonText(v), FALSE, clickOk))
                       ELSE clicks
          /\ IF click /\ clickOk
             THEN /\ found' = Put(found, "clicked", TRUE)
                  /\ pc' = "ci_modal"                       \* break
                  /\ idx' = idx
             ELSE /\ found' = found
                  /\ idx' = idx + 1
                  /\ pc' = IF idx + 1 < NumCreateButtonSelectors
                           THEN "ci_selector"
                           ELSE "ci_fallbackCount"
    /\ UNCHANGED <<op, result, err, options, maxRetries, attempt, gotoOptions, calls,
                   waits, probes, observed, screenshots, dom, now, self,
                   values, retval, scenarios, caller>>

\* one iteration of the selector loop on a candidate that count() reports
\* absent, or on which a call rejects
CreateInstanceSkipSelector ==
    /\ op = "clickCreateInstance" /\ pc = "ci_selector"
    /\ idx' = idx + 1
    /\ pc' = IF idx + 1 < NumCreateButtonSelectors THEN "ci_selector" ELSE "ci_fallbackCount"
    /\ UNCHANGED <<op, result, err, options, maxRetries, attempt, gotoOptions, calls,
                   waits, probes, found, clicks, observed, screenshots, dom, now, self,
                   values, retval, scenarios, caller>>

\* if (!clicked): const buttonCount = await allButtons.count()
CreateInstanceFallbackCount(n) ==
    /\ op = "clickCreateInstance" /\ pc = "ci_fallbackCount"
    /\ found' = Put(found, "buttonCount", n)
    /\ idx' = 0
    /\ pc' = IF 0 < Min(n, FallbackButtonLimit) THEN "ci_fallback" ELSE "ci_screenshot"
    /\ UNCHANGED <<op, result, err, options, maxRetries, attempt, gotoOptions, calls,
                   waits, probes, clicks, observed, screenshots, dom, now, self,
                   values, retval, scenarios, caller>>

\* one iteration of the loop over the visible buttons
CreateInstanceTryButton(v, clickOk) ==
    /\ op = "clickCreateInstance" /\ pc = "ci_fallback"
    /\ clickOk \/ FailedClicks < MaxFailedClicks
    /\ LET click == v.visible /\ MatchesCreatePattern(ButtonText(v))
       IN /\ clicks' = IF click
                       THEN Append(clicks, ClickRecord(ButtonText(v), FALSE, clickOk))
                       ELSE clicks
          /\ IF click /\ clickOk
             THEN /\ found' = Put(found, "clicked", TRUE)
                  /\ pc' = "ci_modal"                       \* break
                  /\ idx' = idx
             ELSE /\ found' = found
                  /\ idx' = idx + 1
                  /\ pc' = IF idx + 1 < Min(found["buttonCount"], FallbackButtonLimit)
                           THEN "ci_fallback"
                           ELSE "ci_screenshot"
    /\ UNCHANGED <<op, result, err, options, maxRetries, attempt, gotoOptions, calls,
                   waits, probes, observed, screenshots, dom, now, self,
                   values, retval, scenarios, caller>>

\* if (!clicked) { await this.page.screenshot(...); ...; throw new Error(...) }
CreateInstanceNotFound(shotOk) ==
    /\ op = "clickCreateInstance" /\ pc = "ci_screenshot"
    /\ screenshots' = Append(screenshots, Shot("create-button-not-found", shotOk))
    /\ IF shotOk
       THEN Throws("CreateButtonNotFound")
       ELSE Throws("ScreenshotError")       \* the await rejects before the throw statement
    /\ UNCHANGED <<op, options, maxRetries, attempt, gotoOptions, calls, waits, idx,
                   probes, found, clicks, observed, dom, now, self,
                   values, retval, scenarios, caller>>

\* try { await this.page.waitForSelector(<modal>) } catch { ... }
CreateInstanceWaitModal(visible) ==
    /\ op = "clickCreateInstance" /\ pc = "ci_modal"
    /\ pc' = IF visible THEN "ci_ready" ELSE "ci_modalShot"
    /\ UNCHANGED <<op, result, err, options, maxRetries, attempt, gotoOptions, calls,
                   waits, idx, probes, found, clicks, observed, screenshots, dom, now, self,
                   values, retval, scenarios, caller>>

\* in the catch: await this.page.screenshot({ path: 'test-results/modal-not-found.png' })
CreateInstanceModalNotFound(shotOk) ==
    /\ op = "clickCreateInstance" /\ pc = "ci_modalShot"
    /\ screenshots' = Append(screenshots, Shot("modal-not-found", shotOk))
    /\ IF shotOk
       THEN /\ pc' = "ci_ready"
            /\ UNCHANGED <<result, err>>
       ELSE Throws("ScreenshotError")       \* rejected inside the catch block: escapes it
    /\ UNCHANGED <<op, options, maxRetries, attempt, gotoOptions, calls, waits, idx,
                   probes, found, clicks, observed, dom, now, self,
                   values, retval, scenarios, caller>>

\* await this.page.waitForLoadState('domcontentloaded'); waitForTimeout(2000)
CreateInstanceReady(ok) ==
    /\ op = "clickCreateInstance" /\ pc = "ci_ready"
    /\ IF ok THEN Returns ELSE Throws("TimeoutError")
    /\ UNCHANGED <<op, options, maxRetries, attempt, gotoOptions, calls, waits, idx,
                   probes, found, clicks, observed, screenshots, dom, now, self,
                   values, retval, scenarios, caller>>

----------------------------------------------------------------------------
(* LoginPage.isLoggedIn *)

NumDashboardIndicators == 5

\* the URLs page.url() can yield, cut into the fragments isLoggedIn looks for
PageUrls ==
    { <<"https://host", "/", "#", "/login">>,
      <<"https://host", "/login", "?", "next=", "home">>,
      <<"https://host", "/", "#", "/home">>,
      <<"https://host", "/", "#", "/", "error">>,
      <<"https://host", "/", "#", "/", "unauthorized">> }

\* only the hash route is looked for
OnLoginPage_hashOnly(url) == Includes(url, <<"#", "/login">>)

\* url.includes('#/login') || url.includes('/login')
OnLoginPage(url) == Includes(url, <<"#", "/login">>) \/ Includes(url, <<"/login">>)

\* !finalUrl.includes('error') && !finalUrl.includes('unauthorized')
NotOnErrorPage(url) == ~Includes(url, <<"error">>) /\ ~Includes(url, <<"unauthorized">>)

\* a method ends by returning the value v
ReturnsValue(v) ==
    /\ pc' = "done"
    /\ result' = "returned"
    /\ retval' = v
    /\ err' = err

IsLoggedInCall ==
    /\ op = "none"
    /\ op' = "isLoggedIn"
    /\ pc' = "loggedIn_url"
    /\ UNCHANGED <<result, err, options, maxRetries, attempt, gotoOptions, calls, waits,
                   idx, probes, found, clicks, observed, screenshots, dom, now, self,
                   values, retval, scenarios, caller>>

\* waitForTimeout(1000); const currentUrl = this.page.url(); if (isOnLoginPage)
IsLoggedInCurrentUrl(url) ==
    /\ op = "isLoggedIn" /\ pc = "loggedIn_url"
    /\ observed' = Append(observed, Observe("url", url))
    /\ pc' = IF OnLoginPage(url) THEN "loggedIn_error" ELSE "loggedIn_indicators"
    /\ idx' = 0
    /\ found' = Put(found, "indicators", 0)
    /\ UNCHANGED <<op, result, err, options, maxRetries, attempt, gotoOptions, calls,
                   waits, probes, clicks, screenshots, dom, now, self, values, retval,
                   scenarios, caller>>

\* const errorMessage = await this.getErrorMessage(): "hidden" when the
\* error element is not visible (''), otherwise what getText does: it yields
\* a "message", the "empty" string, or it "throws"
IsLoggedInErrorMessage(outcome) ==
    /\ op = "isLoggedIn" /\ pc = "loggedIn_error"
    /\ observed' = Append(observed, Observe("errorMessage", outcome))
    /\ CASE outcome = "message" -> ReturnsValue("false")
         [] outcome = "throws" -> Throws("GetTextError") /\ retval' = retval
         [] OTHER -> pc' = "loggedIn_form" /\ UNCHANGED <<result, err, retval>>
    /\ UNCHANGED <<op, options, maxRetries, attempt, gotoOptions, calls, waits, idx,
                   probes, found, clicks, screenshots, dom, now, self, values,
                   scenarios, caller>>

\* loginFormVisible: usernameInput, passwordInput or loginButton is visible
IsLoggedInLoginForm(visible) ==
    /\ op = "isLoggedIn" /\ pc = "loggedIn_form"
    /\ observed' = Append(observed, Observe("loginForm", visible))
    /\ IF visible
       THEN ReturnsValue("false")
       ELSE pc' = "loggedIn_recheck" /\ UNCHANGED <<result, err, retval>>
    /\ UNCHANGED <<op, options, maxRetries, attempt, gotoOptions, calls, waits, idx,
                   probes, found, clicks, screenshots, dom, now, self, values,
                   scenarios, caller>>

\* waitForTimeout(2000); const newUrl = this.page.url()
IsLoggedInNewUrl(url) ==
    /\ op = "isLoggedIn" /\ pc = "loggedIn_recheck"
    /\ observed' = Append(observed, Observe("url", url))
    /\ IF OnLoginPage(url)
       THEN ReturnsValue("false")
       ELSE pc' = "loggedIn_indicators" /\ UNCHANGED <<result, err, retval>>
    /\ UNCHANGED <<op, options, maxRetries, attempt, gotoOptions, calls, waits, idx,
                   probes, found, clicks, screenshots, dom, now, self, values,
                   scenarios, caller>>

\* one iteration of the loop over dashboardIndicators; after the last one,
\* if (foundIndicators === 0) ... else return true
IsLoggedInIndicator(visible) ==
    /\ op = "isLoggedIn" /\ pc = "loggedIn_indicators"
    /\ LET foundIndicators == found["indicators"] + (IF visible THEN 1 ELSE 0)
       IN /\ found' = Put(found, "indicators", foundIndicators)
          /\ idx' = idx + 1
          /\ IF idx + 1 < NumDashboardIndicators
             THEN pc' = "loggedIn_indicators" /\ UNCHANGED <<result, err, retval>>
             ELSE IF foundIndicators = 0
                  THEN pc' = "loggedIn_final" /\ UNCHANGED <<result, err, retval>>
                  ELSE ReturnsValue("true")
    /\ UNCHANGED <<op, options, maxRetries, attempt, gotoOptions, calls, waits,
                   probes, clicks, observed, screenshots, dom, now, self, values,
                   scenarios, caller>>

\* the final check when no indicator was found
IsLoggedInFinalUrl(url, loginFormStillPresent) ==
    /\ op = "isLoggedIn" /\ pc = "loggedIn_final"
    /\ observed' = Append(observed, Observe("url", url))
    /\ IF ~OnLoginPage(url) /\ NotOnErrorPage(url) /\ ~loginFormStillPresent
       THEN ReturnsValue("true")
       ELSE ReturnsValue("false")
    /\ UNCHANGED <<op, options, maxRetries, attempt, gotoOptions, calls, waits, idx,
                   probes, found, clicks, screenshots, dom, now, self, values,
                   scenarios, caller>>

----------------------------------------------------------------------------
(* The test runner under playwright.config.js: workers, retries *)

\* the runner's own default when the configuration does not set workers
ConfiguredWorkers_default == 2

\* workers: 1
ConfiguredWorkers == 1

\* retries: process.env.CI ? 2 : 1
ConfiguredRetries(ci) == IF ci THEN 2 ELSE 1

Scenarios == 1..NumScenarios

\* the scenarios a worker is executing, each holding its page fixture
Running == { s \in DOMAIN scenarios : scenarios[s].state = "running" }

\* npx playwright test
RunnerStart(ci) ==
    /\ op = "none"
    /\ op' = "test"
    /\ pc' = "running"
    /\ options' = [ci |-> ci]
    /\ scenarios' = [s \in Scenarios |-> [state |-> "pending", runs |-> 0]]
    /\ UNCHANGED <<result, err, maxRetries, attempt, gotoOptions, calls, waits, idx,
                   probes, found, clicks, observed, screenshots, dom, now, self,
                   values, retval, caller>>

\* a free worker takes a scenario that waits for its first run or for a retry
ScenarioStart(s) ==
    /\ op = "test"
    /\ scenarios[s].state = "pending"
    /\ Cardinality(Running) < ConfiguredWorkers
    /\ scenarios' = [scenarios EXCEPT ![s] = [state |-> "running", runs |-> @.runs + 1]]
    /\ UNCHANGED <<op, pc, result, err, options, maxRetries, attempt, gotoOptions, calls,
                   waits, idx, probes, found, clicks, observed, screenshots, dom, now,
                   self, values, retval, caller>>

\* the run of a scenario ends; a failed scenario is queued again until it
\* has had its retries
ScenarioEnd(s, passed) ==
    /\ op = "test"
    /\ scenarios[s].state = "running"
    /\ scenarios' = [scenarios EXCEPT ![s].state =
                        IF passed THEN "passed"
                        ELSE IF scenarios[s].runs <= ConfiguredRetries(options.ci)
                             THEN "pending"
                             ELSE "failed"]
    /\ UNCHANGED <<op, pc, result, err, options, maxRetries, attempt, gotoOptions, calls,
                   waits, idx, probes, found, clicks, observed, screenshots, dom, now,
                   self, values, retval, caller>>

----------------------------------------------------------------------------
(* FormPage.fillFormCreationForm and TaskBotPage.fillTaskBotForm: the two   *)
(* methods have the same body, on the fields formNameInput / taskNameInput  *)

FillMethods == {"fillFormCreationForm", "fillTaskBotForm"}

\* the field of the page object the method reads as candidate 0 and assigns
NameField(method) ==
    IF method = "fillFormCreationForm" THEN "formNameInput" ELSE "taskNameInput"

NumNameInputSelectors == 8
NumDescInputSelectors == 5
NameProbeTimeout == 5000

\* the name and description arguments ("" is the falsy description)
FormNames == {"Invoice"}
FormDescriptions == {"", "about"}

\* the field keeps the locator the constructor gave it
StoredNameInput_kept(old, nameInput) == old

\* this.formNameInput = nameInput / this.taskNameInput = nameInput
StoredNameInput(old, nameInput) == nameInput

\* the call, the waitForTimeout(2000) and the construction of the candidate
\* list; the field holds the constructor's locator, which is candidate 0, and
\* the page the loop finds is any of Doms
FillFormCall(method, name, description) ==
    /\ op = "none"
    /\ op' = method
    /\ pc' = "fill_name"
    /\ options' = [name |-> name, description |-> description]
    /\ self' = (NameField(method) :> 0)
    /\ values' = [c \in 0..(NumNameInputSelectors - 1) |-> ""]
    /\ dom' \in Doms(NumNameInputSelectors)
    /\ now' = 0
    /\ idx' = 0
    /\ UNCHANGED <<result, err, maxRetries, attempt, gotoOptions, calls, waits, probes,
                   found, clicks, observed, screenshots, retval, scenarios, caller>>

\* one iteration of the name loop:
\* selector.isVisible({ timeout: 5000 }).catch(() => false)
FillProbeName ==
    /\ op \in FillMethods /\ pc = "fill_name"
    /\ LET cand == SelectorAt(idx, NumNameInputSelectors)
           isVisible == IsVisible(dom[cand], now, NameProbeTimeout)
       IN /\ probes' = Append(probes, Probe("name", cand, isVisible))
          /\ IF isVisible
             THEN /\ found' = Put(found, "name", cand)
                  /\ pc' = "fill_store"                          \* break
                  /\ idx' = idx
             ELSE /\ found' = found
                  /\ idx' = idx + 1
                  /\ pc' = IF idx + 1 < NumNameInputSelectors
                           THEN "fill_name"
                           ELSE "fill_notFound"
    /\ UNCHANGED <<op, result, err, options, maxRetries, attempt, gotoOptions, calls,
                   waits, clicks, observed, screenshots, dom, now, self, values, retval,
                   scenarios, caller>>

\* if (!nameInputFound || !nameInput): the screenshot, whose rejection is
\* swallowed, then throw new Error('... name input field not found ...')
FillNameNotFound(shotOk) ==
    /\ op \in FillMethods /\ pc = "fill_notFound"
    /\ screenshots' = Append(screenshots, Shot("input-not-found", shotOk))
    /\ Throws("NameInputNotFound")
    /\ UNCHANGED <<op, options, maxRetries, attempt, gotoOptions, calls, waits, idx,
                   probes, found, clicks, observed, dom, now, self, values, retval,
                   scenarios, caller>>

\* the assignment to the field, then await nameInput.clear()
FillStoreAndClear(ok) ==
    /\ op \in FillMethods /\ pc = "fill_store"
    /\ self' = Put(self, NameField(op), StoredNameInput(self[NameField(op)], found["name"]))
    /\ IF ok
       THEN /\ pc' = "fill_fillInput"
            /\ UNCHANGED <<result, err>>
       ELSE Throws("ClearError")
    /\ dom' = <<>>
    /\ now' = 0
    /\ UNCHANGED <<op, options, maxRetries, attempt, gotoOptions, calls, waits, idx,
                   probes, found, clicks, observed, screenshots, values, retval,
                   scenarios, caller>>

\* await this.fillInput(nameInput, name): waitForElement "timeout", a
\* clear/fill that "rejects", or the fill happens and inputValue() yields the
\* text as "entered" or as the page "altered" it (then validation throws);
\* after it, if (description) starts the description loop
FillNameInput(outcome) ==
    /\ op \in FillMethods /\ pc = "fill_fillInput"
    /\ CASE outcome = "entered" ->
              /\ values' = [values EXCEPT ![found["name"]] = options.name]
              /\ IF options.description # ""
                 THEN pc' = "fill_description" /\ UNCHANGED <<result, err>>
                 ELSE Returns
         [] outcome = "altered" ->
              /\ values' = [values EXCEPT ![found["name"]] = "altered"]
              /\ Throws("ValidationError")
         [] OTHER ->
              /\ values' = values
              /\ Throws("FillError")
    /\ idx' = 0
    /\ UNCHANGED <<op, options, maxRetries, attempt, gotoOptions, calls, waits,
                   probes, found, clicks, observed, screenshots, dom, now, self, retval,
                   scenarios, caller>>

\* one iteration of the description loop: isElementVisible(selector, 3000);
\* without a description field the method returns without filling one
FillProbeDescription(visible) ==
    /\ op \in FillMethods /\ pc = "fill_description"
    /\ probes' = Append(probes, Probe("description", idx, visible))
    /\ IF visible
       THEN /\ pc' = "fill_fillDescription"                      \* break
            /\ idx' = idx
            /\ UNCHANGED <<result, err>>
       ELSE /\ idx' = idx + 1
            /\ IF idx + 1 < NumDescInputSelectors
               THEN pc' = "fill_description" /\ UNCHANGED <<result, err>>
               ELSE Returns
    /\ UNCHANGED <<op, options, maxRetries, attempt, gotoOptions, calls, waits, found,
                   clicks, observed, screenshots, dom, now, self, values, retval,
                   scenarios, caller>>

\* await this.fillInput(descInput, description)
FillDescription(ok) ==
    /\ op \in FillMethods /\ pc = "fill_fillDescription"
    /\ IF ok THEN Returns ELSE Throws("FillError")
    /\ UNCHANGED <<op, options, maxRetries, attempt, gotoOptions, calls, waits, idx,
                   probes, found, clicks, observed, screenshots, dom, now, self, values,
                   retval, scenarios, caller>>

----------------------------------------------------------------------------
(* The click strategies of TaskBotPage.saveConfiguration and of the menu    *)
(* phase of AutomationPage.selectTaskBot                                    *)

NumSaveSelectors == 9
NumTaskBotSelectors == 13

\* the forced click is tried before the regular one
ClickStrategies_forceFirst == <<"force", "regular", "script">>

\* the nested try blocks: selector.click(), selector.click({ force: true }),
\* selector.evaluate(el => el.click())
ClickStrategies == <<"regular", "force", "script">>

\* selectTaskBot adds item.focus() and keyboard.press('Enter') as a last one
MenuStrategies == ClickStrategies \o <<"keyboard">>

StrategyClick(pass, target, strategy, ok) ==
    [pass |-> pass, target |-> target, strategy |-> strategy, ok |-> ok]

\* every strategy is issued on the candidate, whichever of them resolves
StrategyAttempts_all(target, okAt, strategies) ==
    [j \in 1..Len(strategies) |->
        StrategyClick("candidates", target, strategies[j], j = okAt)]

\* the clicks the nested try blocks issue on one candidate: each strategy
\* once, in order, up to the first that does not reject; okAt is its
\* position, 0 when all of them reject
StrategyAttempts(target, okAt, strategies) ==
    [j \in 1..(IF okAt = 0 THEN Len(strategies) ELSE okAt) |->
        StrategyClick("candidates", target, strategies[j], j = okAt)]

SaveConfigurationCall ==
    /\ op = "none"
    /\ op' = "saveConfiguration"
    /\ pc' = "save_selectors"
    /\ idx' = 0
    /\ UNCHANGED <<result, err, options, maxRetries, attempt, gotoOptions, calls,
                   waits, probes, found, clicks, observed, screenshots, dom, now, self,
                   values, retval, scenarios, caller>>

\* one iteration of the loop over saveSelectors: the candidate is "skipped"
\* (it is not visible, or scrollIntoViewIfNeeded rejects and the outer catch
\* goes on), or "clickable": then the strategies run
SaveTrySelector(view, okAt) ==
    /\ op = "saveConfiguration" /\ pc = "save_selectors"
    /\ view = "clickable" \/ okAt = 0
    /\ probes' = Append(probes, Probe("save", idx, view = "clickable"))
    /\ clicks' = clicks \o (IF view = "clickable"
                            THEN StrategyAttempts(idx, okAt, ClickStrategies)
                            ELSE <<>>)
    /\ IF view = "clickable" /\ okAt # 0
       THEN /\ pc' = "save_wait"                                  \* saved = true; break
            /\ idx' = idx
       ELSE /\ idx' = idx + 1
            /\ pc' = IF idx + 1 < NumSaveSelectors THEN "save_selectors" ELSE "save_fallback"
    /\ UNCHANGED <<op, result, err, options, maxRetries, attempt, gotoOptions, calls,
                   waits, found, observed, screenshots, dom, now, self, values, retval,
                   scenarios, caller>>

\* if (!saved): the screenshot, whose rejection is swallowed, and the count
\* of the buttons with the text Save; a count() that rejects is caught and
\* leaves saved false
SaveFallbackCount(shotOk, counted, n) ==
    /\ op = "saveConfiguration" /\ pc = "save_fallback"
    /\ counted \/ n = 0
    /\ screenshots' = Append(screenshots, Shot("save-button-not-found", shotOk))
    /\ found' = Put(found, "count", n)
    /\ idx' = 0
    /\ IF n > 0
       THEN pc' = "save_buttons" /\ UNCHANGED <<result, err>>
       ELSE Throws("SaveNotClicked")
    /\ UNCHANGED <<op, options, maxRetries, attempt, gotoOptions, calls, waits, probes,
                   clicks, observed, dom, now, self, values, retval, scenarios, caller>>

\* one iteration of the fallback loop: the button is "skipped" (not visible,
\* or the scroll rejects) or gets a single regular click; after the last
\* button, if (!saved) throw
SaveTryButton(outcome) ==
    /\ op = "saveConfiguration" /\ pc = "save_buttons"
    /\ probes' = Append(probes, Probe("saveButtons", idx, outcome # "skipped"))
    /\ clicks' = IF outcome \in {"clicked", "clickFails"}
                 THEN Append(clicks, StrategyClick("fallback", idx, "regular", outcome = "clicked"))
                 ELSE clicks
    /\ IF outcome = "clicked"
       THEN /\ pc' = "save_wait"
            /\ idx' = idx
            /\ UNCHANGED <<result, err>>
       ELSE /\ idx' = idx + 1
            /\ IF idx + 1 < found["count"]
               THEN pc' = "save_buttons" /\ UNCHANGED <<result, err>>
               ELSE Throws("SaveNotClicked")
    /\ UNCHANGED <<op, options, maxRetries, attempt, gotoOptions, calls, waits, found,
                   observed, screenshots, dom, now, self, values, retval, scenarios,
                   caller>>

\* waitForTimeout(2000) and the look for a success indicator, whose
\* rejections are swallowed
SaveWait ==
    /\ op = "saveConfiguration" /\ pc = "save_wait"
    /\ Returns
    /\ UNCHANGED <<op, options, maxRetries, attempt, gotoOptions, calls, waits, idx,
                   probes, found, clicks, observed, screenshots, dom, now, self,
                   values, retval, scenarios, caller>>

\* selectTaskBot up to the menu phase: clickCreateDropdown(), whose error is
\* rethrown after a guarded screenshot, then the guarded waits and the
\* 'dropdown-opened' screenshot
SelectTaskBotCall(dropdownOk, shotOk) ==
    /\ op = "none"
    /\ op' = "selectTaskBot"
    /\ screenshots' = Append(screenshots,
                             Shot(IF dropdownOk THEN "dropdown-opened" ELSE "selectTaskBot-error",
                                  shotOk))
    /\ IF dropdownOk
       THEN pc' = "menu_count" /\ UNCHANGED <<result, err>>
       ELSE Throws("CreateDropdownError")
    /\ UNCHANGED <<options, maxRetries, attempt, gotoOptions, calls, waits, idx,
                   probes, found, clicks, observed, dom, now, self, values, retval,
                   scenarios, caller>>

\* the first menuItemSelectors entry with count() > 0 gives itemCount; with
\* none, the 'no-menu-items' screenshot (guarded) and on to the selectors
MenuCount(n) ==
    /\ op = "selectTaskBot" /\ pc = "menu_count"
    /\ found' = Put(found, "count", n)
    /\ idx' = 0
    /\ pc' = IF n > 0 THEN "menu_items" ELSE "menu_selectors"
    /\ screenshots' = IF n > 0 THEN screenshots
                      ELSE Append(screenshots, Shot("no-menu-items", TRUE))
    /\ UNCHANGED <<op, result, err, options, maxRetries, attempt, gotoOptions, calls,
                   waits, probes, clicks, observed, dom, now, self, values, retval,
                   scenarios, caller>>

\* one iteration of the loop over the menu items: the item is "skipped"
\* (its text is not Task Bot, it is not visible, or a call before the click
\* rejects and the catch goes on), or "clickable": then the strategies run
MenuTryItem(view, okAt) ==
    /\ op = "selectTaskBot" /\ pc = "menu_items"
    /\ view = "clickable" \/ okAt = 0
    /\ probes' = Append(probes, Probe("items", idx, view = "clickable"))
    /\ clicks' = clicks \o (IF view = "clickable"
                            THEN StrategyAttempts(idx, okAt, MenuStrategies)
                            ELSE <<>>)
    /\ IF view = "clickable" /\ okAt # 0
       THEN /\ pc' = "menu_done"                                  \* clicked = true; break
            /\ idx' = idx
       ELSE /\ pc' = IF idx + 1 < found["count"] THEN "menu_items" ELSE "menu_selectors"
            /\ idx' = IF idx + 1 < found["count"] THEN idx + 1 ELSE 0
    /\ UNCHANGED <<op, result, err, options, maxRetries, attempt, gotoOptions, calls,
                   waits, found, observed, screenshots, dom, now, self, values, retval,
                   scenarios, caller>>

\* if (!clicked): one iteration of the loop over taskBotSelectors, a single
\* regular click on a visible candidate
MenuTrySelector(outcome) ==
    /\ op = "selectTaskBot" /\ pc = "menu_selectors"
    /\ outcome = "clickFails" =>
          Cardinality({ i \in 1..Len(clicks) : clicks[i].pass = "fallback" /\ ~clicks[i].ok })
              < MaxFailedClicks
    /\ probes' = Append(probes, Probe("taskBotSelectors", idx, outcome # "skipped"))
    /\ clicks' = IF outcome \in {"clicked", "clickFails"}
                 THEN Append(clicks, StrategyClick("fallback", idx, "regular", outcome = "clicked"))
                 ELSE clicks
    /\ IF outcome = "clicked"
       THEN /\ pc' = "menu_done"
            /\ idx' = idx
       ELSE /\ idx' = idx + 1
            /\ pc' = IF idx + 1 < NumTaskBotSelectors THEN "menu_selectors" ELSE "menu_default"
    /\ UNCHANGED <<op, result, err, options, maxRetries, attempt, gotoOptions, calls,
                   waits, found, observed, screenshots, dom, now, self, values, retval,
                   scenarios, caller>>

\* if (!clicked): waitForElement, scrollIntoViewIfNeeded and clickElement on
\* this.taskBotOption; any rejection becomes 'Could not click Task Bot option'
MenuDefaultSelector(ok) ==
    /\ op = "selectTaskBot" /\ pc = "menu_default"
    /\ probes' = Append(probes, Probe("default", 0, ok))
    /\ IF ok
       THEN pc' = "menu_done" /\ UNCHANGED <<result, err>>
       ELSE Throws("TaskBotNotClicked")
    /\ UNCHANGED <<op, options, maxRetries, attempt, gotoOptions, calls, waits, idx,
                   found, clicks, observed, screenshots, dom, now, self, values,
                   retval, scenarios, caller>>

\* the look for the creation form: nothing in it throws
MenuDone ==
    /\ op = "selectTaskBot" /\ pc = "menu_done"
    /\ Returns
    /\ UNCHANGED <<op, options, maxRetries, attempt, gotoOptions, calls, waits, idx,
                   probes, found, clicks, observed, screenshots, dom, now, self,
                   values, retval, scenarios, caller>>

----------------------------------------------------------------------------
(* BasePage.fillInput *)

\* the texts a caller passes, and the values locator.inputValue() reads back
FillTexts == {"Invoice", ""}
EnteredValues == {"Invoice", "Invoic", ""}

\* validation runs only when the caller asks for it
Validates_onlyTrue(o) == o.validate = "true"

\* if (options.validate !== false)
Validates(o) == o.validate # "false"

FillInputCall(text, validate) ==
    /\ op = "none"
    /\ op' = "fillInput"
    /\ pc' = "fi_fill"
    /\ options' = [validate |-> validate]
    /\ found' = Put(found, "text", text)
    /\ UNCHANGED <<result, err, maxRetries, attempt, gotoOptions, calls, waits, idx,
                   probes, clicks, observed, screenshots, dom, now, self, values,
                   retval, scenarios, caller>>

\* await this.waitForElement(locator, options.timeout); await locator.clear();
\* await locator.fill(text); the first await that rejects reaches the catch
\* block, which logs and rethrows
FillInputFill(outcome) ==
    /\ op = "fillInput" /\ pc = "fi_fill"
    /\ observed' = IF outcome \in {"fillRejects", "filled"}
                   THEN Append(observed, Observe("fill", found["text"]))
                   ELSE observed
    /\ CASE outcome = "waitTimeout" -> Throws("ElementWaitTimeout")
         [] outcome = "clearRejects" -> Throws("ClearError")
         [] outcome = "fillRejects" -> Throws("FillError")
         [] outcome = "filled" ->
              IF Validates(options)
              THEN pc' = "fi_validate" /\ UNCHANGED <<result, err>>
              ELSE Returns
    /\ UNCHANGED <<op, options, maxRetries, attempt, gotoOptions, calls, waits, idx,
                   probes, found, clicks, screenshots, dom, now, self, values, retval,
                   scenarios, caller>>

\* const enteredValue = await locator.inputValue();
\* if (enteredValue !== text) throw new Error('Input validation failed. ...')
FillInputValidate(read, enteredValue) ==
    /\ op = "fillInput" /\ pc = "fi_validate"
    /\ observed' = Append(observed, Observe("inputValue", IF read THEN enteredValue ELSE "rejects"))
    /\ IF ~read
       THEN Throws("InputValueError")
       ELSE IF enteredValue # found["text"]
            THEN Throws("InputValidationFailed")
            ELSE Returns
    /\ UNCHANGED <<op, options, maxRetries, attempt, gotoOptions, calls, waits, idx,
                   probes, found, clicks, screenshots, dom, now, self, values, retval,
                   scenarios, caller>>

----------------------------------------------------------------------------
(* Helpers.waitForElementWithRetry *)

\* the options objects callers pass: maxRetries absent or given
WaitRetryOptionSets == {<<>>} \cup { [maxRetries |-> n] : n \in RetriesOpts }

\* const maxRetries = options.maxRetries || 3
WaitRetryMax(o) == NumOr(o, "maxRetries", 3)

\* no attempt is taken for the last one
IsLastAttempt_never(i, m) == FALSE

\* if (i === maxRetries - 1)
IsLastAttempt(i, m) == i = m - 1

\* the call, up to the first test of i < maxRetries
WaitRetryCall(o) ==
    /\ op = "none"
    /\ op' = "waitForElementWithRetry"
    /\ options' = o
    /\ maxRetries' = WaitRetryMax(o)
    /\ attempt' = 0
    /\ IF 0 < WaitRetryMax(o)
       THEN pc' = "wr_attempt" /\ UNCHANGED <<result, err, retval>>
       ELSE ReturnsValue("false")                 \* the return after the loop
    /\ UNCHANGED <<gotoOptions, calls, waits, idx, probes, found, clicks, observed,
                   screenshots, dom, now, self, values, scenarios, caller>>

\* one iteration of the loop: page.waitForSelector resolves (visible) or
\* rejects; after a rejection that is not the last attempt's,
\* page.waitForTimeout(1000) and the next test of i < maxRetries
WaitRetryAttempt(visible) ==
    /\ op = "waitForElementWithRetry" /\ pc = "wr_attempt"
    /\ IF visible
       THEN /\ observed' = Append(observed, Observe("waitForSelector", "visible"))
            /\ attempt' = attempt
            /\ ReturnsValue("true")
       ELSE IF IsLastAttempt(attempt, maxRetries)
            THEN /\ observed' = Append(observed, Observe("waitForSelector", "rejects"))
                 /\ attempt' = attempt
                 /\ ReturnsValue("false")
            ELSE /\ observed' = observed \o <<Observe("waitForSelector", "rejects"),
                                              Observe("waitForTimeout", "1000")>>
                 /\ attempt' = attempt + 1
                 /\ IF attempt + 1 < maxRetries
                    THEN pc' = "wr_attempt" /\ UNCHANGED <<result, err, retval>>
                    ELSE ReturnsValue("false")    \* the return after the loop
    /\ UNCHANGED <<op, options, maxRetries, gotoOptions, calls, waits, idx, probes,
                   found, clicks, screenshots, dom, now, self, values, scenarios,
                   caller>>

----------------------------------------------------------------------------
(* TestDataManager.getTestData *)

\* what JSON.parse yields for the test-data file: an object with some of
\* the keys, each holding an object, false, 0, the empty string or null
TestDataFiles ==
    LET Stored == {"{...}", "false", "0", "''", "null"}
    IN UNION { [ks -> Stored] : ks \in SUBSET {"edgeCases", "enabled"} }

\* !v for a stored value
Falsy(v) == v \in {"false", "0", "''", "null"}

\* loadTestData throws when the file is missing or is not JSON; otherwise
\* if (!testData[dataKey]) throw new Error('Test data key ... not found');
\* return testData[dataKey]
GetTestData(loaded, testData, dataKey) ==
    /\ op = "none"
    /\ op' = "getTestData"
    /\ found' = Put(Put(Put(found, "loaded", loaded), "testData", testData), "dataKey", dataKey)
    /\ IF ~loaded
       THEN Throws("TestDataFileError") /\ retval' = retval
       ELSE IF dataKey \notin DOMAIN testData \/ Falsy(testData[dataKey])
            THEN Throws("TestDataKeyNotFound") /\ retval' = retval
            ELSE ReturnsValue(testData[dataKey])
    /\ UNCHANGED <<options, maxRetries, attempt, gotoOptions, calls, waits, idx,
                   probes, clicks, observed, screenshots, dom, now, self, values,
                   scenarios, caller>>

----------------------------------------------------------------------------
(* APIHelper *)

\* the tokens callers set (<<>> is the empty string) and the headers
\* arguments they pass (<<>> is undefined)
AuthTokens == {<<>>, <<"t1">>, <<"t2">>}
CallerHeaders ==
    { <<>>,
      [Authorization |-> <<"Basic ", "own">>],
      [Accept |-> <<"text/plain">>] }

\* the helper's Authorization entry is written before the caller's headers
\* are spread over the object
GetHeaders_callerWins(authToken, additionalHeaders) ==
    additionalHeaders
        @@ (IF authToken # <<>>
            THEN [Authorization |-> <<"Bearer ">> \o authToken]
            ELSE <<>>)
        @@ [ContentType |-> <<"application/json">>, Accept |-> <<"application/json">>]

\* const headers = { 'Content-Type': ..., 'Accept': ..., ...additionalHeaders };
\* if (this.authToken) headers['Authorization'] = `Bearer ${this.authToken}`
GetHeaders(authToken, additionalHeaders) ==
    LET headers == additionalHeaders
                     @@ [ContentType |-> <<"application/json">>,
                         Accept |-> <<"application/json">>]
    IN IF authToken # <<>>
       THEN Put(headers, "Authorization", <<"Bearer ">> \o authToken)
       ELSE headers

\* constructor: this.authToken = null (falsy, as the empty string is)
ApiNew ==
    /\ op = "none"
    /\ op' = "APIHelper"
    /\ pc' = "api_ready"
    /\ self' = Put(self, "authToken", <<>>)
    /\ idx' = 0
    /\ UNCHANGED <<result, err, options, maxRetries, attempt, gotoOptions, calls,
                   waits, probes, found, clicks, observed, screenshots, dom, now,
                   values, retval, scenarios, caller>>

\* setAuthToken(token) { this.authToken = token }
ApiSetAuthToken(token) ==
    /\ op = "APIHelper"
    /\ self' = Put(self, "authToken", token)
    /\ idx' = idx
    /\ UNCHANGED <<op, pc, result, err, options, maxRetries, attempt, gotoOptions,
                   calls, waits, probes, found, clicks, observed, screenshots, dom,
                   now, values, retval, scenarios, caller>>

\* get, post, put and delete: this.request[method](url, { headers: this.getHeaders(headers) });
\* idx counts the requests sent
ApiRequest(method, headers) ==
    /\ op = "APIHelper" /\ idx < MaxApiCalls
    /\ observed' = Append(observed,
                          Observe(method, [headers |-> GetHeaders(self["authToken"], headers),
                                           passed |-> headers,
                                           authToken |-> self["authToken"]]))
    /\ idx' = idx + 1
    /\ UNCHANGED <<op, pc, result, err, options, maxRetries, attempt, gotoOptions,
                   calls, waits, probes, found, clicks, screenshots, dom, now, self,
                   values, retval, scenarios, caller>>

----------------------------------------------------------------------------
(* VisualRegressionHelper, for one screenshot name *)

\* the bytes page.screenshot can write
Captures == {"bytesA", "bytesB"}

\* every capture replaces the baseline
BaselineAfter_latest(baseline, capture) == capture

\* if (!fs.existsSync(baselinePath)) fs.copyFileSync(screenshotPath, baselinePath)
BaselineAfter(baseline, capture) == IF baseline = "none" THEN capture ELSE baseline

\* constructor: the directories are created; no file for the name yet
VisualNew ==
    /\ op = "none"
    /\ op' = "VisualRegressionHelper"
    /\ pc' = "visual_ready"
    /\ found' = Put(Put(found, "screenshot", "none"), "baseline", "none")
    /\ idx' = 0
    /\ UNCHANGED <<result, err, options, maxRetries, attempt, gotoOptions, calls,
                   waits, probes, clicks, observed, screenshots, dom, now, self,
                   values, retval, scenarios, caller>>

\* one compareScreenshot call: page.screenshot writes capture (shotOk) or
\* rejects; fsOk is false when copyFileSync or readFileSync throws; the
\* catch block turns every error into return false
CompareScreenshot(capture, shotOk, fsOk) ==
    /\ op = "VisualRegressionHelper" /\ idx < MaxCompares
    /\ shotOk \/ fsOk
    /\ LET baseline == found["baseline"]
           after == IF shotOk /\ fsOk THEN BaselineAfter(baseline, capture) ELSE baseline
           returned == /\ shotOk /\ fsOk
                       /\ (baseline = "none" \/ capture = baseline)
       IN /\ found' = Put(Put(found, "screenshot",
                              IF shotOk THEN capture ELSE found["screenshot"]),
                          "baseline", after)
          /\ observed' = Append(observed,
                Observe("compareScreenshot",
                        [capture |-> IF shotOk THEN capture ELSE "none",
                         completed |-> shotOk /\ fsOk,
                         returned |-> returned,
                         baseline |-> after]))
    /\ idx' = idx + 1
    /\ UNCHANGED <<op, pc, result, err, options, maxRetries, attempt, gotoOptions,
                   calls, waits, probes, clicks, screenshots, dom, now, self, values,
                   retval, scenarios, caller>>

\* updateBaseline(name): the last capture becomes the baseline, or the call
\* throws when there is none
UpdateBaseline ==
    /\ op = "VisualRegressionHelper" /\ idx < MaxCompares
    /\ found' = IF found["screenshot"] # "none"
                THEN Put(found, "baseline", found["screenshot"])
                ELSE found
    /\ observed' = Append(observed,
            Observe("updateBaseline",
                    [capture |-> "none", completed |-> found["screenshot"] # "none",
                     returned |-> FALSE,
                     baseline |-> IF found["screenshot"] # "none"
                                  THEN found["screenshot"] ELSE found["baseline"]]))
    /\ idx' = idx + 1
    /\ UNCHANGED <<op, pc, result, err, options, maxRetries, attempt, gotoOptions,
                   calls, waits, probes, clicks, screenshots, dom, now, self, values,
                   retval, scenarios, caller>>

----------------------------------------------------------------------------
(* The network capture of the Learning Instance scenario: the two page.on   *)
(* listeners and the variables they share                                   *)

\* the requests the page issues while the listeners are registered
NetRequests ==
    << [method |-> "GET", url |-> <<"/api/", "v1", "/learning", "/list">>],
       [method |-> "POST", url |-> <<"/api/", "v1", "/instance">>],
       [method |-> "GET", url |-> <<"/static", "/app.js">>] >>

\* url.includes('/api/') && (url.includes('/instance') || url.includes('/learning') || ...)
MatchesInstanceFilter(url) ==
    /\ Includes(url, <<"/api/">>)
    /\ \/ Includes(url, <<"/instance">>)
       \/ Includes(url, <<"/learning">>)
       \/ Includes(url, <<"/learning-instance">>)
       \/ Includes(url, <<"/iqbot">>)
       \/ Includes(url, <<"/cognitive">>)

\* let createApiResponse = null; let createApiRequest = null; page.on(...)
\* (a null variable is a key absent from found)
CaptureStart ==
    /\ op = "none"
    /\ op' = "networkCapture"
    /\ pc' = "listening"
    /\ found' = Put(Put(Put(found, "sent", {}), "reading", {}), "answered", {})
    /\ UNCHANGED <<result, err, options, maxRetries, attempt, gotoOptions, calls,
                   waits, idx, probes, clicks, observed, screenshots, dom, now, self,
                   values, retval, scenarios, caller>>

\* the page issues request r and the 'request' listener runs (it has no await)
RequestEvent(r) ==
    /\ op = "networkCapture"
    /\ r \notin found["sent"]
    /\ found' = LET f == Put(found, "sent", found["sent"] \cup {r})
                IN IF MatchesInstanceFilter(NetRequests[r].url)
                   THEN Put(f, "createApiRequest", NetRequests[r])
                   ELSE f
    /\ UNCHANGED <<op, pc, result, err, options, maxRetries, attempt, gotoOptions,
                   calls, waits, idx, probes, clicks, observed, screenshots, dom, now,
                   self, values, retval, scenarios, caller>>

\* the response to r arrives and the 'response' listener runs up to
\* await response.json()
ResponseEvent(r) ==
    /\ op = "networkCapture"
    /\ r \in found["sent"] /\ r \notin found["answered"]
    /\ found' = LET f == Put(found, "answered", found["answered"] \cup {r})
                IN IF MatchesInstanceFilter(NetRequests[r].url)
                   THEN Put(f, "reading", found["reading"] \cup {r})
                   ELSE f
    /\ UNCHANGED <<op, pc, result, err, options, maxRetries, attempt, gotoOptions,
                   calls, waits, idx, probes, clicks, observed, screenshots, dom, now,
                   self, values, retval, scenarios, caller>>

\* the body of the response to r is read and the listener resumes:
\* createApiResponse = { url, method: createApiRequest?.method || 'POST', ... }
ResponseBodyRead(r) ==
    /\ op = "networkCapture"
    /\ r \in found["reading"]
    /\ found' = Put(Put(found, "reading", found["reading"] \ {r}),
                    "createApiResponse",
                    [request |-> r,
                     url |-> NetRequests[r].url,
                     method |-> IF "createApiRequest" \in DOMAIN found
                                THEN found["createApiRequest"].method
                                ELSE "POST"])
    /\ UNCHANGED <<op, pc, result, err, options, maxRetries, attempt, gotoOptions,
                   calls, waits, idx, probes, clicks, observed, screenshots, dom, now,
                   self, values, retval, scenarios, caller>>

----------------------------------------------------------------------------
Init ==
    /\ op = "none"
    /\ pc = "idle"
    /\ result = "none"
    /\ err = "none"
    /\ options = <<>>
    /\ maxRetries = 0
    /\ attempt = 0
    /\ gotoOptions = <<>>
    /\ calls = <<>>
    /\ waits = <<>>
    /\ idx = 0
    /\ probes = <<>>
    /\ found = <<>>
    /\ clicks = <<>>
    /\ observed = <<>>
    /\ screenshots = <<>>
    /\ dom = <<>>
    /\ now = 0
    /\ self = <<>>
    /\ values = <<>>
    /\ retval = "none"
    /\ scenarios = <<>>
    /\ caller = "none"

Next ==
    \/ \E o \in GotoOptionSets : GotoCall(o)
    \/ GotoAttemptSucceeds
    \/ \E id \in AttemptErrorIds : GotoAttemptFails(id)
    \/ NavigateToLoginCall
    \/ NavigateToLoginWait
    \/ ScenarioCatch
    \/ \E o \in ClickOptionSets : ClickElementCall(o)
    \/ \E b \in BOOLEAN : ClickWaitForElement(b)
    \/ \E b \in BOOLEAN : ClickWaitAttached(b)
    \/ \E b \in BOOLEAN : ClickIsEnabled(b)
    \/ \E b \in BOOLEAN : ClickClick(b)
    \/ LoginCall
    \/ \E b \in BOOLEAN : LoginWaitForLoadState(b)
    \/ LoginProbeUsername
    \/ \E n \in 0..1 : LoginUsernameFallback(n)
    \/ \E b \in BOOLEAN : LoginFillUsername(b)
    \/ \E p \in PasswordProbes : LoginProbePassword(p)
    \/ \E w \in {"page", "frame", "nowhere", "throws"} : LoginPasswordFallback(w)
    \/ \E b \in BOOLEAN : LoginPasswordNotFound(b)
    \/ \E b \in BOOLEAN : LoginFillPassword(b)
    \/ \E b \in BOOLEAN : LoginSubmit(b)
    \/ AddTextboxCall
    \/ \E b \in BOOLEAN : AddTextboxWaitMenu(b)
    \/ \E b \in BOOLEAN : AddTextboxProbeTextbox(b)
    \/ \E b \in BOOLEAN : AddTextboxProbeCanvas(b)
    \/ \E h \in {"dragged", "clicked", "failed"} : AddTextboxDragAndDrop(h)
    \/ TakeScreenshotCall
    \/ \E b \in BOOLEAN : TakeScreenshotCapture(b)
    \/ CreateDropdownCall
    \/ \E b \in BOOLEAN, n \in 0..MaxButtons : CreateDropdownCount(b, n)
    \/ \E o \in {"invisible", "throws", "clicked", "forceClicked", "bothFail"} :
          CreateDropdownTryButton(o)
    \/ \E b \in BOOLEAN : CreateDropdownNotClicked(b)
    \/ CreateDropdownVerifyMenu
    \/ \E b \in BOOLEAN : CreateDropdownCatch(b)
    \/ CreateInstanceCall
    \/ \E v \in ButtonViews, b \in BOOLEAN : CreateInstanceTrySelector(v, b)
    \/ CreateInstanceSkipSelector
    \/ \E n \in 0..MaxButtons : CreateInstanceFallbackCount(n)
    \/ \E v \in ButtonViews, b \in BOOLEAN : CreateInstanceTryButton(v, b)
    \/ \E b \in BOOLEAN : CreateInstanceNotFound(b)
    \/ \E b \in BOOLEAN : CreateInstanceWaitModal(b)
    \/ \E b \in BOOLEAN : CreateInstanceModalNotFound(b)
    \/ \E b \in BOOLEAN : CreateInstanceReady(b)
    \/ IsLoggedInCall
    \/ \E u \in PageUrls : IsLoggedInCurrentUrl(u)
    \/ \E o \in {"hidden", "message", "empty", "throws"} : IsLoggedInErrorMessage(o)
    \/ \E b \in BOOLEAN : IsLoggedInLoginForm(b)
    \/ \E u \in PageUrls : IsLoggedInNewUrl(u)
    \/ \E b \in BOOLEAN : IsLoggedInIndicator(b)
    \/ \E u \in PageUrls, b \in BOOLEAN : IsLoggedInFinalUrl(u, b)
    \/ \E b \in BOOLEAN : RunnerStart(b)
    \/ \E s \in Scenarios : ScenarioStart(s)
    \/ \E s \in Scenarios, b \in BOOLEAN : ScenarioEnd(s, b)
    \/ \E m \in FillMethods, n \in FormNames, t \in FormDescriptions : FillFormCall(m, n, t)
    \/ FillProbeName
    \/ \E b \in BOOLEAN : FillNameNotFound(b)
    \/ \E b \in BOOLEAN : FillStoreAndClear(b)
    \/ \E o \in {"timeout", "rejects", "entered", "altered"} : FillNameInput(o)
    \/ \E b \in BOOLEAN : FillProbeDescription(b)
    \/ \E b \in BOOLEAN : FillDescription(b)
    \/ SaveConfigurationCall
    \/ \E v \in {"skipped", "clickable"}, k \in 0..Len(ClickStrategies) :
          SaveTrySelector(v, k)
    \/ \E s \in BOOLEAN, c \in BOOLEAN, n \in 0..MaxButtons : SaveFallbackCount(s, c, n)
    \/ \E o \in {"skipped", "clicked", "clickFails"} : SaveTryButton(o)
    \/ SaveWait
    \/ \E d \in BOOLEAN, s \in BOOLEAN : SelectTaskBotCall(d, s)
    \/ \E n \in 0..MaxButtons : MenuCount(n)
    \/ \E v \in {"skipped", "clickable"}, k \in 0..Len(MenuStrategies) : MenuTryItem(v, k)
    \/ \E o \in {"skipped", "clicked", "clickFails"} : MenuTrySelector(o)
    \/ \E b \in BOOLEAN : MenuDefaultSelector(b)
    \/ MenuDone
    \/ \E t \in FillTexts, v \in {"undefined", "true", "false"} : FillInputCall(t, v)
    \/ \E o \in {"waitTimeout", "clearRejects", "fillRejects", "filled"} : FillInputFill(o)
    \/ \E r \in BOOLEAN, e \in EnteredValues : FillInputValidate(r, e)
    \/ \E o \in WaitRetryOptionSets : WaitRetryCall(o)
    \/ \E b \in BOOLEAN : WaitRetryAttempt(b)
    \/ \E l \in BOOLEAN, f \in TestDataFiles, k \in {"edgeCases", "enabled"} :
            GetTestData(l, f, k)
    \/ ApiNew
    \/ \E t \in AuthTokens : ApiSetAuthToken(t)
    \/ \E m \in {"get", "post", "put", "delete"}, h \in CallerHeaders : ApiRequest(m, h)
    \/ VisualNew
    \/ \E c \in Captures, s \in BOOLEAN, f \in BOOLEAN : CompareScreenshot(c, s, f)
    \/ UpdateBaseline
    \/ CaptureStart
    \/ \E r \in 1..Len(NetRequests) : RequestEvent(r)
    \/ \E r \in 1..Len(NetRequests) : ResponseEvent(r)
    \/ \E r \in 1..Len(NetRequests) : ResponseBodyRead(r)

Spec == Init /\ [][Next]_vars

----------------------------------------------------------------------------
(* Properties of BasePage.goto *)

\* the maximum the caller configured: options.retries, or 3 when it is absent or 0
ConfiguredMax ==
    IF "retries" \in DOMAIN options /\ options.retries # 0
    THEN options.retries
    ELSE 3

\* error ids by the class the claims give them
RetryableIds == {"timeout", "http2", "reset", "dns"}
NonNetworkIds == {"invalid"}

AllCallsFailedRetryable == \A i \in 1..Len(calls) : calls[i].outcome \in RetryableIds

TotalWait(i) == SumSeq(waits[i])

\* C1 as stated: with options.retries = N >= 1 and page.goto failing with a
\* network/timeout-class error on every attempt, the failure reaches the
\* caller after exactly N+1 calls of page.goto.
C1_Original ==
    (/\ op = "goto"
     /\ "retries" \in DOMAIN options
     /\ options.retries >= 1
     /\ AllCallsFailedRetryable
     /\ result = "thrown")
    => Len(calls) = options.retries + 1

\* C1 amended: with options.retries = N >= 1 and page.goto failing with a
\* network/timeout-class error on every attempt, goto keeps attempting while
\* fewer than N calls were made and throws the last error after exactly N
\* calls of page.goto (options.retries counts the attempts, not the retries
\* after the first).
C1_ExactlyNCalls ==
    (/\ op = "goto"
     /\ "retries" \in DOMAIN options
     /\ options.retries >= 1
     /\ AllCallsFailedRetryable)
    => /\ Len(calls) <= options.retries
       /\ (Len(calls) < options.retries => result = "none" /\ pc = "goto_attempt")
       /\ (Len(calls) = options.retries =>
              /\ result = "thrown"
              /\ err = calls[Len(calls)].outcome)

C1_Witness ==
    /\ op = "goto"
    /\ "retries" \in DOMAIN options
    /\ options.retries = 4
    /\ AllCallsFailedRetryable
    /\ result = "thrown"
    /\ Len(calls) = 4

Strength(w) ==
    CASE w = "domcontentloaded" -> 1
      [] w = "load" -> 2
      [] w = "networkidle" -> 3
      [] OTHER -> 0

C4_SucceedsAfterTransientFailures ==
    op = "goto" =>
       /\ (AllCallsFailedRetryable /\ Len(calls) < maxRetries) =>
              (result = "none" /\ pc = "goto_attempt")
       /\ \A k \in 1..Len(calls) :
             calls[k].outcome = "ok" =>
                /\ k = Len(calls)
                /\ result = "returned"
                /\ err = "none"

C4_Witness ==
    /\ op = "goto"
    /\ Len(calls) = 3
    /\ calls[1].outcome \in RetryableIds
    /\ calls[2].outcome \in RetryableIds
    /\ calls[3].outcome = "ok"
    /\ result = "returned"

\* C5: when page.goto fails with an error that is not network/timeout-class,
\* goto rethrows that very error after this attempt: no backoff wait follows
\* it and no further page.goto call is made, whatever maxRetries is.
C5_NonNetworkErrorFailsFast ==
    op = "goto" =>
       \A k \in 1..Len(calls) :
          calls[k].outcome \in NonNetworkIds =>
             /\ k = Len(calls)
             /\ result = "thrown"
             /\ err = calls[k].outcome
             /\ Len(waits) = k - 1

C5_Witness ==
    /\ op = "goto"
    /\ maxRetries = 5
    /\ Len(calls) = 1
    /\ calls[1].outcome \in NonNetworkIds
    /\ result = "thrown"
    /\ waits = <<>>

\* C7 as stated: within one goto call the wait durations applied between
\* successive attempts are non-decreasing, for every sequence of retryable
\* error kinds and every maxRetries.
C7_Original ==
    op = "goto" =>
       \A i \in 1..(Len(waits) - 1) : TotalWait(i) <= TotalWait(i + 1)

\* C7 amended: within one goto call the total wait applied after a failed
\* attempt is not smaller than the one applied after the attempt before it,
\* unless that earlier attempt failed with a connection reset or an HTTP/2
\* protocol error (for which goto lengthens the wait); every wait is at least
\* min(attempt * 2000, 10000).
C7_BackoffNonDecreasing ==
    op = "goto" =>
       /\ \A i \in 1..Len(waits) : TotalWait(i) >= Min(i * 2000, 10000)
       /\ \A i \in 1..(Len(waits) - 1) :
             calls[i].outcome \notin {"reset", "http2"} =>
                TotalWait(i) <= TotalWait(i + 1)

C7_Witness ==
    /\ op = "goto"
    /\ Len(waits) = 3
    /\ calls[1].outcome = "timeout"
    /\ calls[2].outcome = "dns"
    /\ calls[3].outcome = "reset"
    /\ TotalWait(1) < TotalWait(2)
    /\ TotalWait(2) < TotalWait(3)

\* C8: within one goto call the timeout passed to page.goto never increases
\* from one attempt to the next, for every initial options.timeout and every
\* sequence of retryable errors.
C8_TimeoutNeverIncreases ==
    op = "goto" =>
       \A i \in 1..(Len(calls) - 1) : calls[i + 1].timeout <= calls[i].timeout

----------------------------------------------------------------------------
(* Properties of BasePage.clickElement *)

ObservedValues(call) == { observed[i].value : i \in { j \in 1..Len(observed) : observed[j].call = call } }
ObservedCount(call) == Cardinality({ j \in 1..Len(observed) : observed[j].call = call })

----------------------------------------------------------------------------
(* Properties of the diagnostic screenshots *)

\* C9: every terminal failure of a core operation captures a diagnostic
\* screenshot before the error reaches the caller: goto when its retries are
\* exhausted, and a candidate loop that ends without a match (the username
\* field in login, the Textbox and canvas lookups in addTextboxElement).
C9_FailureTakesScreenshot ==
    /\ (op = "goto" /\ result = "thrown" /\ Len(calls) = maxRetries)
          => screenshots # <<>>
    /\ (op = "login" /\ result = "thrown" /\ err = "UsernameNotFound")
          => screenshots # <<>>
    /\ (op = "addTextboxElement" /\ result = "thrown"
          /\ err \in {"TextboxNotFound", "CanvasNotFound"})
          => screenshots # <<>>

\* C10: a failure of page.screenshot during diagnostic capture is never
\* escalated: whenever login, clickCreateInstance, clickCreateDropdown or
\* Helpers.takeScreenshot takes a failure screenshot, the caller sees the
\* operation's own error or outcome and never the screenshot error.
C10_ScreenshotErrorNeverEscalates ==
    op \in {"login", "clickCreateInstance", "clickCreateDropdown", "takeScreenshot"}
       => /\ err # "ScreenshotError"
          /\ (op = "login" /\ result # "none" /\ screenshots # <<>>)
                => err = "PasswordNotFound"
          /\ (op = "takeScreenshot" /\ result # "none") => result = "returned"

----------------------------------------------------------------------------
(* Properties of the failure goto surfaces *)

\* C11: when goto gives up, the failure that reaches the caller is a typed
\* failure carrying the history of every attempt of the call: it has an
\* attempts field with one entry per page.goto call made
C11_FailureCarriesAttemptHistory ==
    (op = "goto" /\ result = "thrown")
        => /\ "attempts" \in DOMAIN SurfacedError
           /\ Len(SurfacedError.attempts) = Len(calls)

\* the ways a failed DNS resolution is reported by page.goto
DnsFailureIds == {"dns", "unknownHost"}

\* C20: when every page.goto of navigateToLogin failed with a DNS-resolution
\* error, the error that reaches the scenario satisfies isDNSError and the
\* scenario is skipped, not failed
C20_DnsFailureSkipsScenario ==
    (/\ caller = "navigateToLogin"
     /\ result = "thrown"
     /\ \A i \in 1..Len(calls) : calls[i].outcome \in DnsFailureIds)
        => /\ IsDNSError(SurfacedError)
           /\ pc # "test_failed"

----------------------------------------------------------------------------
(* Properties of LoginPage.isLoggedIn *)

\* the URLs page.url() yielded during the call
ObservedUrls == ObservedValues("url")

\* C18: isLoggedIn never returns true when every URL it observed during the
\* call contains '/login': it then returns false
C18_NeverLoggedInOnLoginUrl ==
    (/\ op = "isLoggedIn"
     /\ result = "returned"
     /\ \A u \in ObservedUrls : Includes(u, <<"/login">>))
        => retval = "false"

\* isLoggedIn found no error message and no login form, looked at the URL
\* again, found it still on a login route and returned false
C18_Witness ==
    /\ op = "isLoggedIn"
    /\ result = "returned"
    /\ ObservedCount("url") = 2
    /\ \A u \in ObservedUrls : Includes(u, <<"/login">>)
    /\ \E u \in ObservedUrls : ~Includes(u, <<"#", "/login">>)
    /\ retval = "false"

----------------------------------------------------------------------------
(* Properties of the test runner *)

\* C17: at most one scenario is executing (and holding a page) at any time,
\* retried runs of failed scenarios included
C17_OneScenarioAtATime == Cardinality(Running) <= 1

\* a scenario is in its second run (a retry) while another has finished and
\* a third still waits
C17_Witness ==
    /\ op = "test"
    /\ \E s \in Running : scenarios[s].runs = 2
    /\ \E s \in Scenarios : scenarios[s].state = "pending"
    /\ \E s \in Scenarios : scenarios[s].state \in {"passed", "failed"}

----------------------------------------------------------------------------
(* Properties of the candidate loops *)

\* the probes one loop has made so far, in the order it made them
LoopProbes(list) == SelectSeq(probes, LAMBDA p : p.list = list)

\* the entry of found a loop assigns
FoundKey == IF op = "login" THEN "username" ELSE "name"

\* the username loop of login or the name loop of a fill method has ended
\* and the page it looked at is still at hand
NameLoopEnded ==
    /\ dom # <<>>
    /\ \/ op = "login" /\ pc \in {"login_fillUsername", "login_usernameFallback"}
       \/ op \in FillMethods /\ pc \in {"fill_store", "fill_notFound"}

\* c is the one candidate whose element is on the page, visible from the
\* moment the loop begins; the elements of the others never show
OnlyMatch(c) ==
    /\ dom[c] = 0
    /\ \A other \in DOMAIN dom \ {c} : dom[other] = Never

NotFoundError(target) ==
    [name |-> "Error", message |-> <<target, " ", "field", " ", "not", " ", "found">>]

\* every candidate of the list was probed and none matched
NoneMatched(list, n) ==
    /\ Len(LoopProbes(list)) = n
    /\ \A k \in 1..n : ~LoopProbes(list)[k].matched

\* C13: when none of the username (password) candidates of login matched,
\* login ends in a not-found failure that lists every candidate tried, as
\* many as the candidate list has
C13_NotFoundEnumeratesCandidates ==
    /\ (op = "login" /\ result # "none" /\ NoneMatched("username", NumUsernameSelectors))
          => /\ err = "UsernameNotFound"
             /\ "tried" \in DOMAIN NotFoundError("Username")
             /\ Len(NotFoundError("Username").tried) = NumUsernameSelectors
    /\ (op = "login" /\ result # "none" /\ NoneMatched("password", NumPasswordSelectors))
          => /\ err = "PasswordNotFound"
             /\ "tried" \in DOMAIN NotFoundError("Password")
             /\ Len(NotFoundError("Password").tried) = NumPasswordSelectors

\* C14: candidate 0 absent, candidate 1 hidden until 2 s have passed,
\* candidate 2 visible at once: the loop waits for candidate 1 and selects it,
\* in login as in fillFormCreationForm and fillTaskBotForm
C14_WaitsForHiddenCandidate ==
    (/\ NameLoopEnded
     /\ dom[0] = Never /\ dom[1] = 2000 /\ dom[2] = 0)
        => (FoundKey \in DOMAIN found /\ found[FoundKey] = 1)

----------------------------------------------------------------------------
(* Properties of fillFormCreationForm / fillTaskBotForm *)

\* the candidate the field formNameInput / taskNameInput holds
StoredField == self[NameField(op)]

\* C15 as stated: after the method returns, the stored locator field is the
\* one the constructor set (candidate 0)
C15_Original ==
    (op \in FillMethods /\ result = "returned") => StoredField = 0

\* C15 amended: after the method returns, the field holds the candidate the
\* name loop matched; it is the constructor's locator only when the first
\* probe matched
C15_StoredLocatorIsMatchedCandidate ==
    (op \in FillMethods /\ result = "returned")
        => LET ps == LoopProbes("name")
           IN /\ StoredField = ps[Len(ps)].cand
              /\ (StoredField = 0) <=> (Len(ps) = 1)

C15_Witness ==
    /\ op \in FillMethods
    /\ result = "returned"
    /\ Len(LoopProbes("name")) = 4
    /\ StoredField = 3

\* C19: after the method returns normally, the field designates the element
\* that was filled, the only one, and its value is the name argument
C19_FieldDesignatesFilledElement ==
    (op \in FillMethods /\ result = "returned")
        => /\ values[StoredField] = options.name
           /\ { c \in DOMAIN values : values[c] # "" } = {StoredField}

C19_Witness ==
    /\ op = "fillTaskBotForm"
    /\ result = "returned"
    /\ options.description # ""
    /\ StoredField = NumNameInputSelectors - 1
    /\ values[StoredField] = options.name

----------------------------------------------------------------------------
(* Properties of the click strategies *)

StrategyMethods == {"saveConfiguration", "selectTaskBot"}

\* the clicks the strategy chain issued on one candidate, in order
AttemptsOn(t) ==
    SelectSeq(clicks, LAMBDA c : c.pass = "candidates" /\ c.target = t)

\* every candidate of the first pass was visited
CandidatesVisited ==
    IF op = "saveConfiguration"
    THEN Len(LoopProbes("save")) = NumSaveSelectors
    ELSE Len(LoopProbes("items")) = found["count"]

\* the passes after the first were run to their end
FallbackVisited ==
    IF op = "saveConfiguration"
    THEN Len(LoopProbes("saveButtons")) = found["count"]
    ELSE /\ Len(LoopProbes("taskBotSelectors")) = NumTaskBotSelectors
         /\ Len(LoopProbes("default")) = 1

\* C16: on each candidate the strategies run in the order regular click,
\* forced click, script-dispatched click (then, in selectTaskBot, the
\* keyboard), each at most once and only after all earlier ones failed on
\* that candidate; the could-not-click failure is thrown only when every
\* candidate and the fallback pass have been gone through without a click
\* that succeeded
C16_StrategiesInOrder ==
    op \in StrategyMethods =>
        /\ \A t \in 0..(NumSaveSelectors - 1) :
              LET a == AttemptsOn(t)
              IN /\ Len(a) <= (IF op = "saveConfiguration" THEN 3 ELSE 4)
                 /\ \A j \in 1..Len(a) :
                       a[j].strategy = <<"regular", "force", "script", "keyboard">>[j]
                 /\ \A j \in 1..(Len(a) - 1) : ~a[j].ok
        /\ err \in {"SaveNotClicked", "TaskBotNotClicked"} =>
              /\ \A i \in 1..Len(clicks) : ~clicks[i].ok
              /\ CandidatesVisited
              /\ FallbackVisited

\* saveConfiguration returned after the script-dispatched click succeeded on
\* the second candidate, the regular and the forced click having failed on
\* it, and all three strategies having failed on the first
C16_Witness ==
    /\ op = "saveConfiguration"
    /\ result = "returned"
    /\ Len(AttemptsOn(0)) = 3 /\ ~AttemptsOn(0)[3].ok
    /\ Len(AttemptsOn(1)) = 3 /\ AttemptsOn(1)[3].ok
    /\ AttemptsOn(1)[3].strategy = "script"

----------------------------------------------------------------------------
\* C28: BasePage.goto returns normally only if some page.goto call of the
\* invocation succeeded, whatever options.retries is (0 and negative values
\* included).  Violated: with retries = -1 the loop condition 1 <= -1 is
\* false at once, no call is made and the method returns.
C28_ReturnsOnlyAfterSuccess ==
    (op = "goto" /\ result = "returned")
        => \E i \in 1..Len(calls) : calls[i].outcome = "ok"

\* C29: in one saveConfiguration call a click that resolved is the last
\* click issued, in either pass, and a call that returns normally has
\* issued exactly one click that resolved.
SuccessfulClicks == { i \in 1..Len(clicks) : clicks[i].ok }

C29_NoClickAfterSuccess ==
    op = "saveConfiguration"
        => /\ \A i \in SuccessfulClicks : i = Len(clicks)
           /\ result = "returned" => Cardinality(SuccessfulClicks) = 1

\* the strategies rejected on a candidate of the list before one resolved,
\* and the call returned
C29_Witness ==
    /\ op = "saveConfiguration" /\ result = "returned"
    /\ Len(clicks) >= 3
    /\ clicks[Len(clicks)].ok
    /\ clicks[Len(clicks)].strategy = "force"

\* C23: clickCreateInstance clicks only elements whose lower-cased text (or
\* aria-label, when the text is empty) contains 'create' and 'learning' or
\* 'instance', in the selector pass and in the visible-buttons pass alike;
\* a call in which no such element was met ends by throwing, with no click
\* issued.
C23_ClicksOnlyCreateButtons ==
    op = "clickCreateInstance"
        => /\ \A i \in 1..Len(clicks) :
                /\ Includes(clicks[i].target, <<"create">>)
                /\ \/ Includes(clicks[i].target, <<"learning">>)
                   \/ Includes(clicks[i].target, <<"instance">>)
           /\ (result # "none" /\ clicks = <<>>)
                => /\ result = "thrown"
                   /\ err \in {"CreateButtonNotFound", "ScreenshotError"}
           /\ (result = "thrown" /\ err = "CreateButtonNotFound")
                => SuccessfulClicks = {}

\* the button was met in the visible-buttons pass and recognised by its
\* aria-label
C23_Witness ==
    /\ op = "clickCreateInstance"
    /\ "buttonCount" \in DOMAIN found
    /\ Len(clicks) = 1
    /\ clicks[1].ok
    /\ clicks[1].target = <<"create", " ", "instance">>

\* C24: login fills the password only into an element the type check took
\* for a password input (el.type === 'password', or the type attribute is
\* 'password'), or into one a fallback lookup selected by
\* input[type="password"]; a candidate found visible or attached that fails
\* the check is passed over and the next candidate is tried.
PasswordFilled == op = "login" /\ pc = "login_submit"

C24_PasswordOnlyIntoPasswordInput ==
    /\ PasswordFilled
         => IF "isPassword" \in DOMAIN found           \* taken in the loop
            THEN found["isPassword"] \/ found["inputType"] = "password"
            ELSE found["password"] \in {"page", "frame"}
    /\ (op = "login" /\ "otherType" \in DOMAIN found /\ "isPassword" \in DOMAIN found)
         => found["otherType"] < found["password"]

\* a candidate that was attached but of another type was passed over, and a
\* later candidate of the list received the password
C24_Witness ==
    /\ PasswordFilled
    /\ "otherType" \in DOMAIN found
    /\ "isPassword" \in DOMAIN found
    /\ found["password"] > found["otherType"]
    /\ found["inputType"] = "password"

\* C21: fillInput called with options.validate other than false returns
\* normally only if the value read back after the wait, clear and fill steps
\* equals text; on a mismatch it throws, and fill is issued once only.
C21_ReturnsOnlyWhenValueMatches ==
    (op = "fillInput" /\ options.validate # "false")
        => /\ result = "returned"
                => /\ ObservedValues("inputValue") = {found["text"]}
                   /\ ObservedCount("inputValue") = 1
           /\ (\E v \in ObservedValues("inputValue") : v # found["text"])
                => /\ result = "thrown"
                   /\ err \in {"InputValidationFailed", "InputValueError"}
           /\ ObservedCount("fill") <= 1

\* validate was left unset, the element kept another value than the text,
\* and the call threw the validation error
C21_Witness ==
    /\ op = "fillInput"
    /\ options.validate = "undefined"
    /\ found["text"] = "Invoice"
    /\ ObservedValues("inputValue") = {"Invoic"}
    /\ err = "InputValidationFailed"

\* C25: waitForElementWithRetry returns true at the first attempt whose wait
\* resolves and attempts nothing after it; when every wait rejects it returns
\* false after exactly maxRetries attempts (3 when options.maxRetries is
\* absent or 0; none when it is negative), with a pause after each attempt
\* but the last, and a rejected wait never makes it throw.
WaitAttempts == { i \in 1..Len(observed) : observed[i].call = "waitForSelector" }
WaitPauses == { i \in 1..Len(observed) : observed[i].call = "waitForTimeout" }

C27_PresentKeyIsReturned ==
    (op = "getTestData" /\ found["loaded"])
        => IF found["dataKey"] \in DOMAIN found["testData"]
           THEN result = "returned" /\ retval = found["testData"][found["dataKey"]]
           ELSE result = "thrown" /\ err = "TestDataKeyNotFound"

\* C22: every get, post, put and delete issued while the token last set is a
\* non-empty t carries Authorization: Bearer t, whatever Authorization header
\* the caller passed; while no token is set the helper adds no Authorization
\* header of its own (the caller's, if any, goes out unchanged).
C22_BearerOfLatestToken ==
    op = "APIHelper"
        => \A i \in 1..Len(observed) :
             LET sent == observed[i].value
             IN IF sent.authToken # <<>>
                THEN /\ "Authorization" \in DOMAIN sent.headers
                     /\ sent.headers["Authorization"] = <<"Bearer ">> \o sent.authToken
                ELSE IF "Authorization" \in DOMAIN sent.passed
                     THEN sent.headers["Authorization"] = sent.passed["Authorization"]
                     ELSE "Authorization" \notin DOMAIN sent.headers

\* t1 was set, then t2, and a request passing its own Authorization header
\* went out with Bearer t2; an earlier request had gone out under t1
C22_Witness ==
    /\ op = "APIHelper"
    /\ Len(observed) = 2
    /\ observed[1].value.authToken = <<"t1">>
    /\ observed[2].value.authToken = <<"t2">>
    /\ "Authorization" \in DOMAIN observed[2].value.passed
    /\ observed[2].value.headers["Authorization"] = <<"Bearer ", "t2">>

\* C26 as stated: in a sequence of compareScreenshot calls with no
\* updateBaseline, the first call returns true and its capture is the
\* baseline from then on; each later call returns true exactly when its
\* capture equals that baseline.  Violated: a first call whose screenshot
\* rejects returns false and leaves no baseline.
OnlyCompares ==
    /\ op = "VisualRegressionHelper"
    /\ \A i \in 1..Len(observed) : observed[i].call = "compareScreenshot"

C26_Original ==
    (OnlyCompares /\ Len(observed) > 0)
        => /\ observed[1].value.returned
           /\ \A i \in 1..Len(observed) :
                /\ observed[i].value.baseline = observed[1].value.capture
                /\ i > 1 => (observed[i].value.returned
                               <=> observed[i].value.capture = observed[1].value.capture)

\* C26 amended: in a sequence of compareScreenshot calls with no
\* updateBaseline, the baseline is the capture of the first call that
\* completed (screenshot taken and files copied or read without error) and
\* is never modified afterwards; that call returns true, each later call
\* returns true exactly when it completed with a capture equal to the
\* baseline, and a call that did not complete returns false.
FirstCompleted ==
    IF \E i \in 1..Len(observed) : observed[i].value.completed
    THEN CHOOSE i \in 1..Len(observed) :
            /\ observed[i].value.completed
            /\ \A j \in 1..(i - 1) : ~observed[j].value.completed
    ELSE 0

C26_BaselineIsFirstCompletedCapture ==
    OnlyCompares
        => \A i \in 1..Len(observed) :
             LET call == observed[i].value
             IN /\ call.baseline = IF FirstCompleted \in 1..i
                                   THEN observed[FirstCompleted].value.capture
                                   ELSE "none"
                /\ call.returned
                     <=> /\ call.completed
                         /\ call.capture = observed[FirstCompleted].value.capture
                /\ i = Len(observed) => found["baseline"] = call.baseline

\* the first call failed to capture, the second created the baseline, the
\* third captured other bytes and returned false
C26_Witness ==
    /\ OnlyCompares
    /\ Len(observed) = 3
    /\ ~observed[1].value.completed
    /\ observed[2].value.returned
    /\ observed[3].value.completed
    /\ ~observed[3].value.returned
    /\ found["baseline"] = observed[2].value.capture

\* C30: whatever the interleaving of the request and response events that
\* match the instance filter, the method recorded in createApiResponse is
\* the method of the request that produced the recorded response.
\* Violated: a second matching request issued before the response to the
\* first one is recorded lends its method to that response.
C30_MethodOfOwnRequest ==
    (op = "networkCapture" /\ "createApiResponse" \in DOMAIN found)
        => found["createApiResponse"].method
             = NetRequests[found["createApiResponse"].request].method

====
